---- MODULE Spec2Model ----
(***************************************************************************)
(* Payment-webhook reconciliation and access granting of the course        *)
(* mini-app server (server/src/controllers/admin.controller.ts): the       *)
(* PayPal webhook dispatcher, the capture completed / denied / refunded    *)
(* handlers, the auto-capture of approved orders, createPurchaseOrder and  *)
(* the admin grant / revoke of a course; and the replay guard of           *)
(* authMiddleware (server/src/middleware/auth.middleware.ts).              *)
(*                                                                         *)
(* Every request is an asynchronous task.  A task keeps a program counter  *)
(* and gives up control at its awaits; one action of this module is the    *)
(* code between two awaits that touch shared state (the database, the      *)
(* cache, the payment provider, the notification courier).  Awaits that    *)
(* only read the course files and the application configuration, which no  *)
(* operation of this model writes, are taken together with the code that   *)
(* follows them.                                                           *)
(*                                                                         *)
(* Not modelled: the amount and currency columns of a transaction, log     *)
(* output, and the favourite flag and purchase time of an entitlement.     *)
(***************************************************************************)
EXTENDS Integers, Sequences, FiniteSets, TLC

(***************************************************************************)
(* Bounds of the model.                                                    *)
(***************************************************************************)
\* Webhook deliveries the provider makes in one behaviour.
MaxDeliveries == 2
\* createPurchaseOrder requests in one behaviour.
MaxOrders == 1

\* Webhook requests that can be in flight at the same time.
Procs == {1, 2}

Users == {1, 2}
\* Course directories under COURSES_DIR, and those that also have metadata.
CourseDirs == {7, 8}
CoursesWithMeta == {7}

(***************************************************************************)
(* Strings.  A custom id is a sequence of characters, so that the regular  *)
(* expression of the handlers is computed on it.                           *)
(***************************************************************************)
DigitChars == <<"0", "1", "2", "3", "4", "5", "6", "7", "8", "9">>
IsDigit(ch) == \E i \in 1..10 : DigitChars[i] = ch
DigitValue(ch) == (CHOOSE i \in 1..10 : DigitChars[i] = ch) - 1

USER_ == <<"u", "s", "e", "r", "_">>
COURSE_ == <<"_", "c", "o", "u", "r", "s", "e", "_">>

\* `${n}` of a non-negative integer: its decimal digits.
RECURSIVE NumberToString(_)
NumberToString(n) ==
    IF n < 10 THEN <<DigitChars[n + 1]>>
    ELSE NumberToString(n \div 10) \o <<DigitChars[(n % 10) + 1]>>

\* parseInt with a bug: the last digit alone.
parseIntLastDigit(s) ==
    IF Len(s) = 0 THEN 0 ELSE DigitValue(s[Len(s)])

\* parseInt(s, 10) of a string of decimal digits.
RECURSIVE parseInt(_)
parseInt(s) ==
    IF Len(s) = 0 THEN 0
    ELSE 10 * parseInt(SubSeq(s, 1, Len(s) - 1)) + DigitValue(s[Len(s)])

\* The template with a bug: the two ids change places.
MakeCustomIdSwapped(userId, courseId) ==
    USER_ \o NumberToString(courseId) \o COURSE_ \o NumberToString(userId)

\* `user_${userId}_course_${courseId}`
MakeCustomId(userId, courseId) ==
    USER_ \o NumberToString(userId) \o COURSE_ \o NumberToString(courseId)

\* s has the literal lit at position i.
HasAt(s, i, lit) ==
    /\ i + Len(lit) - 1 <= Len(s)
    /\ \A k \in 1..Len(lit) : s[i + k - 1] = lit[k]

\* The last position of the longest run of digits of s that starts at i
\* (i - 1 when s[i] is no digit): what a greedy \d+ takes.
DigitRunEnd(s, i) ==
    LET ends == {j \in (i - 1)..Len(s) : \A k \in i..j : IsDigit(s[k])}
    IN  CHOOSE j \in ends : \A j2 \in ends : j2 <= j

\* /user_(\d+)_course_(\d+)/ tried at position i of s.  A shorter first run
\* of digits is followed by a digit, never by "_", so only the longest run
\* can be followed by "_course_".
MatchesAt(s, i) ==
    /\ HasAt(s, i, USER_)
    /\ LET e1 == DigitRunEnd(s, i + 5)
       IN  /\ e1 >= i + 5
           /\ HasAt(s, e1 + 1, COURSE_)
           /\ DigitRunEnd(s, e1 + 9) >= e1 + 9

NoMatch == [matched |-> FALSE, g1 |-> <<>>, g2 |-> <<>>]

\* customId.match(/user_(\d+)_course_(\d+)/): the leftmost match anywhere in
\* the string (the pattern has no anchors) and its two groups.
MatchCustomId(s) ==
    IF \E i \in 1..Len(s) : MatchesAt(s, i)
    THEN LET i  == CHOOSE i \in 1..Len(s) :
                       MatchesAt(s, i) /\ \A j \in 1..(i - 1) : ~MatchesAt(s, j)
             e1 == DigitRunEnd(s, i + 5)
             e2 == DigitRunEnd(s, e1 + 9)
         IN  [matched |-> TRUE,
              g1 |-> SubSeq(s, i + 5, e1),
              g2 |-> SubSeq(s, e1 + 9, e2)]
    ELSE NoMatch

(***************************************************************************)
(* The relational store.  A row of user_courses is [id, user_id,           *)
(* course_id]; a row of transactions is [id, user_id, course_id,           *)
(* payment_id, status, type, notification_message_id].                     *)
(***************************************************************************)
\* notification_message_id NULL (`let notificationMessageId = null`).
NoMessage == 0
\* An absent string field of an event (undefined): falsy, like "".
NoId == ""

\* The rowid a new row gets: one more than the largest in the table.
NextRowId(rows) ==
    IF rows = {} THEN 1
    ELSE (CHOOSE m \in {r.id : r \in rows} : \A r \in rows : r.id <= m) + 1

\* SELECT id FROM user_courses WHERE user_id = ? AND course_id = ?
SelectUserCourse(rows, userId, courseId) ==
    {r \in rows : r.user_id = userId /\ r.course_id = courseId}

\* The schema of user_courses: UNIQUE (user_id, course_id).
UserCourseIsUnique == TRUE

\* The store without the uniqueness constraint on user_courses.
InsertUserCourseNoConstraint(rows, userId, courseId) ==
    [ok   |-> TRUE,
     rows |-> rows \cup {[id |-> NextRowId(rows), user_id |-> userId,
                          course_id |-> courseId]}]

\* INSERT INTO user_courses (user_id, course_id, purchased_at) VALUES (...)
\* as the store executes it: the statement fails (the query rejects) when the
\* row would break the uniqueness constraint.
InsertUserCourse(rows, userId, courseId) ==
    IF UserCourseIsUnique /\ SelectUserCourse(rows, userId, courseId) # {}
    THEN [ok |-> FALSE, rows |-> rows]
    ELSE [ok   |-> TRUE,
          rows |-> rows \cup {[id |-> NextRowId(rows), user_id |-> userId,
                               course_id |-> courseId]}]

\* The statement with a bug: no conflict is seen and the row is added anyway.
InsertOrIgnoreSeesNoConflict(rows, userId, courseId) ==
    InsertUserCourseNoConstraint(rows, userId, courseId).rows

\* INSERT OR IGNORE INTO user_courses ...: a conflicting row is skipped.
InsertOrIgnoreUserCourse(rows, userId, courseId) ==
    IF InsertUserCourse(rows, userId, courseId).ok
    THEN InsertUserCourse(rows, userId, courseId).rows
    ELSE rows

\* The statement with a bug: the WHERE clause compares the course id with
\* the user id, so the row of the refund is not the one deleted.
DeleteUserCourseWrongKey(rows, userId, courseId) ==
    rows \ {r \in rows : r.user_id = courseId /\ r.course_id = userId}

\* DELETE FROM user_courses WHERE user_id = ? AND course_id = ?
DeleteUserCourse(rows, userId, courseId) ==
    rows \ SelectUserCourse(rows, userId, courseId)

\* INSERT INTO transactions (...) VALUES (...)
InsertTransaction(rows, userId, courseId, paymentId, status, type, messageId) ==
    rows \cup {[id |-> NextRowId(rows), user_id |-> userId,
                course_id |-> courseId, payment_id |-> paymentId,
                status |-> status, type |-> type,
                notification_message_id |-> messageId]}

\* The query with a bug: the payment id is left out of the WHERE clause.
SelectPendingAnyOrder(rows, userId, courseId, orderId) ==
    LET found == {r \in rows : /\ r.user_id = userId
                               /\ r.course_id = courseId
                               /\ r.status = "pending"}
    IN  IF found = {} THEN {}
        ELSE {CHOOSE r \in found : \A r2 \in found : r2.id <= r.id}

\* SELECT id, notification_message_id FROM transactions WHERE user_id = ?
\* AND course_id = ? AND status = 'pending' AND payment_id = ?
\* ORDER BY created_at DESC LIMIT 1: the newest such row, if any.
SelectPending(rows, userId, courseId, orderId) ==
    LET found == {r \in rows : /\ r.user_id = userId
                               /\ r.course_id = courseId
                               /\ r.status = "pending"
                               /\ r.payment_id = orderId}
    IN  IF found = {} THEN {}
        ELSE {CHOOSE r \in found : \A r2 \in found : r2.id <= r.id}

\* UPDATE transactions SET status = ?, payment_id = ? WHERE id = ?
UpdateTransaction(rows, id, status, paymentId) ==
    {IF r.id = id THEN [r EXCEPT !.status = status, !.payment_id = paymentId]
     ELSE r : r \in rows}

(***************************************************************************)
(* The cache: a key is <<"user", id>> or <<"courses", userId>>              *)
(* (CACHE_KEYS.USER, CACHE_KEYS.USER_COURSES).                             *)
(***************************************************************************)
USER(telegramId) == <<"user", telegramId>>
USER_COURSES(userId) == <<"courses", userId>>

\* cache.del(key)
CacheDel(c, key) == [k \in (DOMAIN c) \ {key} |-> c[k]]

\* cache.set(key, value)
CacheSet(c, key, value) ==
    [k \in (DOMAIN c) \cup {key} |-> IF k = key THEN value ELSE c[k]]

(***************************************************************************)
(* Webhook events.  An event is [event_type, id, custom_id, order_id]: id  *)
(* is resource.id, custom_id is resource.custom_id (<<>> when absent) and  *)
(* order_id is resource.supplementary_data.related_ids.order_id (NoId when *)
(* absent).                                                                *)
(***************************************************************************)
Event(type, id, customId, orderId) ==
    [event_type |-> type, id |-> id, custom_id |-> customId, order_id |-> orderId]

NoEvent == Event("none", NoId, <<>>, NoId)

\* Custom ids the provider may carry: those createPurchaseOrder builds, one
\* with a character before the pattern and one with a character after it,
\* one cut short, one for a course without metadata and one for a course
\* without a directory.
PaddedBefore == <<"x">> \o MakeCustomId(1, 7)
PaddedAfter == MakeCustomId(1, 7) \o <<"x">>
CutShort == USER_ \o <<"1">>

\* The events of the dispatcher environment: every event type the dispatcher
\* routes, one it does not know, and a custom id the handlers do not accept.
Events ==
    {Event("PAYMENT.CAPTURE.COMPLETED", "CAP1", MakeCustomId(1, 7), o) :
        o \in {NoId, "ORDER1"}}
    \cup {Event(t, "CAP1", MakeCustomId(1, 7), NoId) :
            t \in {"PAYMENT.CAPTURE.DENIED", "PAYMENT.CAPTURE.REFUNDED",
                   "CUSTOMER.DISPUTE.CREATED"}}
    \cup {Event("CHECKOUT.ORDER.APPROVED", "ORDER1", MakeCustomId(1, 7), NoId)}
    \cup {Event("PAYMENT.CAPTURE.COMPLETED", "CAP1", CutShort, NoId)}

\* The events of the concurrent environment: captures of one purchase.
ConcEvents ==
    {Event("PAYMENT.CAPTURE.COMPLETED", "CAP1", MakeCustomId(1, 7), o) :
        o \in {NoId, "ORDER1"}}

\* The events of the sequential environment: captures with and without the
\* order createPurchaseOrder recorded, of an order it never recorded, and a
\* second capture.
SeqEvents ==
    {Event("PAYMENT.CAPTURE.COMPLETED", "CAP1", MakeCustomId(1, 7), o) :
        o \in {NoId, "ORDER1", "ORDER9"}}
    \cup {Event("PAYMENT.CAPTURE.COMPLETED", "CAP2", MakeCustomId(1, 7), NoId)}
    \cup {Event("PAYMENT.CAPTURE.REFUNDED", "CAP1", MakeCustomId(1, 7), NoId)}
    \cup {Event("PAYMENT.CAPTURE.DENIED", "CAP1", MakeCustomId(1, 7), NoId)}

\* The events of the parsing environment: every capture event type with
\* every custom id.
ParseEvents ==
    {Event(t, "CAP1", cid, "ORDER1") :
        t \in {"PAYMENT.CAPTURE.COMPLETED", "PAYMENT.CAPTURE.DENIED",
               "PAYMENT.CAPTURE.REFUNDED"},
        cid \in {<<>>, CutShort, PaddedBefore, PaddedAfter, MakeCustomId(1, 7),
                 MakeCustomId(2, 7), MakeCustomId(1, 8), MakeCustomId(1, 9)}}

(***************************************************************************)
(* State.                                                                  *)
(***************************************************************************)
VARIABLES
    config,         \* [webhookId, nodeEnv]: config.paypal.webhookId is set, config.nodeEnv
    user_courses,   \* the rows of table user_courses
    transactions,   \* the rows of table transactions
    cache,          \* the cache: a function from the keys it holds to their values
    notifications,  \* the notifications the courier was asked to send, in order
    paypalOrders,   \* the orders created at the provider: [orderId, custom_id]
    pc,             \* pc[p]: where webhook request p is
    request,        \* request[p]: [event, sigValid] of webhook request p
    local,          \* local[p]: the local variables of the handler of request p
    response,       \* response[p]: [status, error] answered to request p (status 0: none yet)
    po,             \* the createPurchaseOrder request: [pc, userId, courseId, orderId, messageId, status]
    deliveries,     \* webhook requests received so far
    orders,         \* createPurchaseOrder requests received so far
    faults,         \* whether database calls may throw in this behaviour
    pre,            \* sequential environment: the stores before the current streak of deliveries
    lastEvent,      \* sequential environment: the event of the last delivery, if nothing ran since
    streak          \* sequential environment: deliveries of lastEvent in a row

\* The state of authMiddleware (server/src/middleware/auth.middleware.ts).
VARIABLES
    authConfig,           \* [demoMode, botToken]: config.demoMode, config.telegram.botToken is set
    initDataReplayStore,  \* the Map of the process: init-data hash -> expiresAt
    now,                  \* Date.now(), in units of half the init-data TTL
    authPc,               \* authPc[p]: where authenticated request p is
    authReq,              \* authReq[p]: [initData, seenInCache, passed, status] of request p
    passed,               \* the requests that got past the replay guard: [initData, at], in order
    authRequests          \* authenticated requests received so far

auth == <<authConfig, initDataReplayStore, now, authPc, authReq, passed,
          authRequests>>

\* The state of the requests that read the entitlements: generateSignedUrl
\* (POST /api/stream/sign-url) and the lessons of a course (getCourseLessons,
\* getDynamicCourseLessons).
VARIABLES
    cloudflare,     \* cloudflareStreamService.isConfigured()
    stream,         \* the generateSignedUrl request: [pc, userId, courseId, videoId, status]
    signed,         \* the signed URLs issued: [userId, courseId, videoId]
    lesson,         \* the lessons request: [pc, handler, userId, demo, courseId, status, content]
    reads,          \* generateSignedUrl and lessons requests received so far
    courses         \* the getUserCourses request: [pc, userId, afterGrant, list, calls]

access == <<cloudflare, stream, signed, lesson, reads, courses>>

\* The applications of the pure functions of the payment code.
VARIABLES
    currency,       \* normalizeCurrency: [pc, value, fallback, result, again]
    roundTrip       \* the custom id: [pc, userId, courseId, customId, parsed]
pure == <<currency, roundTrip>>

vars == <<config, user_courses, transactions, cache, notifications, paypalOrders,
          pc, request, local, response, po, deliveries, orders,
          faults, pre, lastEvent, streak, auth, access, pure>>

stores == <<user_courses, transactions, cache, notifications, paypalOrders>>
ghosts == <<pre, lastEvent, streak>>
counters == <<deliveries, orders>>

NoLocal ==
    [userId |-> 0, courseId |-> 0, captureId |-> NoId, orderId |-> NoId,
     pendingId |-> 0, notificationMessageId |-> NoMessage, nested |-> FALSE]

NoResponse == [status |-> 0, error |-> FALSE]

NoRequest == [event |-> NoEvent, sigValid |-> FALSE]

NoPurchase ==
    [pc |-> "idle", userId |-> 0, courseId |-> 0, orderId |-> NoId,
     messageId |-> NoMessage, status |-> 0]

Snapshot ==
    [user_courses |-> user_courses, transactions |-> transactions,
     cache |-> cache, notifications |-> notifications]

EmptySnapshot ==
    [user_courses |-> {}, transactions |-> {}, cache |-> <<>>,
     notifications |-> <<>>]

EmptyStores ==
    /\ user_courses = {}
    /\ transactions = {}
    /\ cache = <<>>
    /\ notifications = <<>>
    /\ paypalOrders = {}

\* An authenticated request that is not there: no header, nothing read from
\* the cache, no answer (status 0).
NoAuthRequest ==
    [initData |-> NoId, seenInCache |-> "unread", passed |-> FALSE, status |-> 0]

\* No authenticated request was received yet.
AuthIdle ==
    /\ initDataReplayStore = <<>>
    /\ now = 0
    /\ authPc = [p \in Procs |-> "idle"]
    /\ authReq = [p \in Procs |-> NoAuthRequest]
    /\ passed = <<>>
    /\ authRequests = 0

\* No authenticated user on a request (req.user, req.userId and
\* req.telegramId undefined), no course id, no video id.
NoUser == 0
NoCourse == 0
NoVideo == ""

NoStream ==
    [pc |-> "idle", userId |-> NoUser, courseId |-> NoCourse,
     videoId |-> NoVideo, status |-> 0]

NoLesson ==
    [pc |-> "idle", handler |-> "none", userId |-> NoUser, demo |-> FALSE,
     courseId |-> NoCourse, status |-> 0, content |-> FALSE]

\* No request that reads the entitlements was received yet.
NoReads == [stream |-> 0, lessons |-> 0]

\* No getUserCourses request was received.
NoCourses ==
    [pc |-> "idle", userId |-> NoUser, afterGrant |-> FALSE, list |-> {},
     calls |-> 0]

AccessIdle ==
    /\ courses = NoCourses
    /\ stream = NoStream
    /\ signed = {}
    /\ lesson = NoLesson
    /\ reads = NoReads

\* A value of type string | null | undefined: its type and, for a string,
\* its characters.
Str(chars) == [type |-> "string", chars |-> chars]
Null == [type |-> "null", chars |-> <<>>]
Undefined == [type |-> "undefined", chars |-> <<>>]

\* No pure function was applied.
NoCurrency ==
    [pc |-> "idle", value |-> Undefined, fallback |-> <<>>, result |-> <<>>,
     again |-> <<>>]
NoParsed == [matched |-> FALSE, userId |-> NoUser, courseId |-> NoCourse]
NoRoundTrip ==
    [pc |-> "idle", userId |-> NoUser, courseId |-> NoCourse, customId |-> <<>>,
     parsed |-> NoParsed]

PureIdle == currency = NoCurrency /\ roundTrip = NoRoundTrip

IdleTasks ==
    /\ authConfig = [demoMode |-> FALSE, botToken |-> TRUE]
    /\ AuthIdle
    /\ cloudflare = TRUE
    /\ AccessIdle
    /\ PureIdle
    /\ pc = [p \in Procs |-> "idle"]
    /\ request = [p \in Procs |-> NoRequest]
    /\ local = [p \in Procs |-> NoLocal]
    /\ response = [p \in Procs |-> NoResponse]
    /\ po = NoPurchase
    /\ deliveries = 0
    /\ orders = 0

\* The server after start, in any configuration; database calls may throw.
Init ==
    /\ config \in [webhookId : BOOLEAN, nodeEnv : {"production", "development"}]
    /\ EmptyStores
    /\ IdleTasks
    /\ faults = TRUE
    /\ pre = EmptySnapshot
    /\ lastEvent = NoEvent
    /\ streak = 0

(***************************************************************************)
(* How a task moves on.                                                    *)
(***************************************************************************)
\* The handler of request p goes on at label with locals loc.
Continue(p, label, loc) ==
    /\ pc' = [pc EXCEPT ![p] = label]
    /\ local' = [local EXCEPT ![p] = loc]
    /\ UNCHANGED <<request, response>>

\* Request p is answered.
Answer(p, status, error) ==
    /\ pc' = [pc EXCEPT ![p] = "done"]
    /\ local' = [local EXCEPT ![p] = NoLocal]
    /\ request' = [request EXCEPT ![p] = NoRequest]
    /\ response' = [response EXCEPT ![p] = [status |-> status, error |-> error]]

\* The handler of request p returns: handlePayPalWebhook answers
\* res.status(200).json({ received: true }).
Return(p) == Answer(p, 200, FALSE)

\* The catch with a bug: the error is passed on and the server answers 500.
ThrowUncaught(p) == Answer(p, 500, TRUE)

\* The handler of request p throws.  handleCheckoutOrderApproved catches what
\* its nested call throws and returns; otherwise the catch of
\* handlePayPalWebhook answers 200 with error 'processed with error'.
Throw(p) == Answer(p, 200, ~local[p].nested)

\* Whether the next database call throws.
FaultChoices == IF faults THEN {FALSE, TRUE} ELSE {FALSE}

(***************************************************************************)
(* handlePayPalWebhook: the signature gate and the routing.                *)
(***************************************************************************)
\* The gate with a bug: the result of verifyWebhookSignature is not looked at.
SignatureGateIgnoringResult(cfg, isValid) ==
    IF cfg.webhookId THEN 0
    ELSE IF cfg.nodeEnv = "production" THEN 500 ELSE 0

\* The gate with a bug: an unconfigured webhook id is let through everywhere.
SignatureGateFailOpen(cfg, isValid) ==
    IF cfg.webhookId THEN (IF isValid THEN 0 ELSE 401) ELSE 0

\* The status the signature gate answers, 0 when the event goes on to the
\* routing: 401 for an invalid signature when a webhook id is configured, 500
\* without a webhook id in production.
SignatureGate(cfg, isValid) ==
    IF cfg.webhookId
    THEN (IF isValid THEN 0 ELSE 401)
    ELSE IF cfg.nodeEnv = "production" THEN 500 ELSE 0

\* The head of the three capture handlers: customId absent, or no match of
\* the pattern, ends the handler; else userId and courseId are the two groups.
ParseCustomId(customId) ==
    IF Len(customId) = 0 THEN [ok |-> FALSE, userId |-> 0, courseId |-> 0]
    ELSE LET match == MatchCustomId(customId)
         IN  IF ~match.matched THEN [ok |-> FALSE, userId |-> 0, courseId |-> 0]
             ELSE [ok |-> TRUE, userId |-> parseInt(match.g1),
                   courseId |-> parseInt(match.g2)]

\* The locals of a handler that parsed custom id parsed of event ev.
Locals(ev, parsed, nested) ==
    [NoLocal EXCEPT !.userId = parsed.userId, !.courseId = parsed.courseId,
                    !.captureId = ev.id, !.orderId = ev.order_id,
                    !.nested = nested]

\* handlePaymentCaptureCompleted up to its first database call: the custom id
\* is parsed, the course directory and the course metadata are looked up.
CompletedBegin(p, ev, nested) ==
    LET parsed == ParseCustomId(ev.custom_id)
    IN  IF /\ parsed.ok
           /\ parsed.courseId \in CourseDirs
           /\ parsed.courseId \in CoursesWithMeta
        THEN Continue(p, "cc_select", Locals(ev, parsed, nested))
        ELSE Return(p)

\* handlePaymentCaptureDenied up to its database call.
DeniedBegin(p, ev) ==
    LET parsed == ParseCustomId(ev.custom_id)
    IN  IF parsed.ok
        THEN Continue(p, "cd_insert", Locals(ev, parsed, FALSE))
        ELSE Return(p)

\* handlePaymentCaptureRefunded up to its first database call.
RefundedBegin(p, ev) ==
    LET parsed == ParseCustomId(ev.custom_id)
    IN  IF parsed.ok
        THEN Continue(p, "cr_delete", Locals(ev, parsed, FALSE))
        ELSE Return(p)

\* switch (event.event_type)
Route(p, ev) ==
    CASE ev.event_type = "PAYMENT.CAPTURE.COMPLETED" -> CompletedBegin(p, ev, FALSE)
      [] ev.event_type = "PAYMENT.CAPTURE.DENIED" -> DeniedBegin(p, ev)
      [] ev.event_type = "PAYMENT.CAPTURE.REFUNDED" -> RefundedBegin(p, ev)
      [] ev.event_type = "CHECKOUT.ORDER.APPROVED" ->
            Continue(p, "oa_capture", [NoLocal EXCEPT !.orderId = ev.id])
      [] OTHER -> Return(p)

\* The task slots are interchangeable: a request takes the first free one.
Free(p) == pc[p] \in {"idle", "done"}
FirstFree(p) == Free(p) /\ \A q \in Procs : Free(q) => ~(q < p)

\* A webhook request arrives: POST /api/webhooks/paypal with event ev, its
\* signature headers valid or not.
ReceiveEvent(p, ev, isValid, max) ==
    /\ FirstFree(p)
    /\ deliveries < max
    /\ deliveries' = deliveries + 1
    /\ pc' = [pc EXCEPT ![p] = "received"]
    /\ request' = [request EXCEPT ![p] = [event |-> ev, sigValid |-> isValid]]
    /\ response' = [response EXCEPT ![p] = NoResponse]
    /\ local' = [local EXCEPT ![p] = NoLocal]
    /\ UNCHANGED <<config, auth, access, pure, stores, po, orders, faults>>

\* The concurrent environment: an event of ConcEvents with a valid signature,
\* at any time.
Receive(p) ==
    \E ev \in ConcEvents :
        /\ ReceiveEvent(p, ev, TRUE, MaxDeliveries)
        /\ UNCHANGED ghosts

\* handlePayPalWebhook from its start to the first database or provider call
\* of the handler it routes to.
HandlePayPalWebhook(p) ==
    /\ pc[p] = "received"
    /\ LET gate == SignatureGate(config, request[p].sigValid)
       IN  IF gate # 0
           THEN Answer(p, gate, TRUE)
           ELSE Route(p, request[p].event)
    /\ UNCHANGED <<config, auth, access, pure, stores, po, counters, faults, ghosts>>

(***************************************************************************)
(* handlePaymentCaptureCompleted, one action for each database, cache and  *)
(* courier call.                                                           *)
(***************************************************************************)
HookFrame == UNCHANGED <<config, auth, access, pure, po, counters, faults, ghosts>>

\* Where the handler goes on after the entitlement is in place.
AfterGrant(p) == IF local[p].orderId # NoId THEN "cc_pending" ELSE "cc_insert_tx"

\* The duplicate check with a bug: an entitlement found is not inserted again,
\* but the handler goes on to the transaction and the notification.
DuplicateGrantGoesOn(p) == Continue(p, AfterGrant(p), local[p])

\* The duplicate check with a bug: the buyer is sent the confirmation again.
DuplicateGrantNotifies(p) == Continue(p, "cc_notify", local[p])

\* if (existing.length > 0) { logger.warn('DuplicateAccess', ...); return }
DuplicateGrant(p) == Return(p)

\* const existing = await query('SELECT id FROM user_courses ...')
CC_SelectExisting(p) ==
    /\ pc[p] = "cc_select"
    /\ \E fail \in FaultChoices :
        IF fail
        THEN Throw(p)
        ELSE /\ IF Cardinality(SelectUserCourse(user_courses, local[p].userId,
                                                 local[p].courseId)) > 0
                THEN DuplicateGrant(p)
                ELSE Continue(p, "cc_grant", local[p])
    /\ UNCHANGED stores
    /\ HookFrame

\* What the handler does when the INSERT into user_courses is rejected, with
\* a bug: the rejection is swallowed and the handler goes on.
GrantRejectedGoesOn(p) == Continue(p, AfterGrant(p), local[p])

\* What the handler does when the INSERT into user_courses is rejected: the
\* await throws, nothing catches it inside the handler.
GrantRejected(p) == Throw(p)

\* await query('INSERT INTO user_courses ...'), then `if (orderId)`.
CC_Grant(p) ==
    /\ pc[p] = "cc_grant"
    /\ \E fail \in FaultChoices :
        IF fail
        THEN Throw(p) /\ UNCHANGED user_courses
        ELSE /\ LET ins == InsertUserCourse(user_courses, local[p].userId,
                                            local[p].courseId)
                IN  /\ user_courses' = ins.rows
                    /\ IF ins.ok
                       THEN Continue(p, AfterGrant(p), local[p])
                       ELSE GrantRejected(p)
    /\ UNCHANGED <<transactions, cache, notifications, paypalOrders>>
    /\ HookFrame

\* const pending = await query('SELECT id, notification_message_id FROM
\* transactions WHERE ... status = 'pending' AND payment_id = ? ...')
CC_SelectPending(p) ==
    /\ pc[p] = "cc_pending"
    /\ \E fail \in FaultChoices :
        IF fail
        THEN Throw(p)
        ELSE /\ LET pending == SelectPending(transactions, local[p].userId,
                                             local[p].courseId, local[p].orderId)
                IN  IF pending # {}
                    THEN LET row == CHOOSE r \in pending : TRUE
                         IN  Continue(p, "cc_update_tx",
                                 [local[p] EXCEPT
                                    !.pendingId = row.id,
                                    !.notificationMessageId =
                                        row.notification_message_id])
                    ELSE Continue(p, "cc_insert_tx", local[p])
    /\ UNCHANGED stores
    /\ HookFrame

\* await query('UPDATE transactions SET status = ?, payment_id = ? ...
\* WHERE id = ?', ['success', captureId, ..., pending[0].id])
CC_UpdateTransaction(p) ==
    /\ pc[p] = "cc_update_tx"
    /\ \E fail \in FaultChoices :
        IF fail
        THEN Throw(p) /\ UNCHANGED transactions
        ELSE /\ transactions' = UpdateTransaction(transactions, local[p].pendingId,
                                                  "success", local[p].captureId)
             /\ Continue(p, "cc_cache_courses", local[p])
    /\ UNCHANGED <<user_courses, cache, notifications, paypalOrders>>
    /\ HookFrame

\* if (!updatedTransaction) await query('INSERT INTO transactions ...',
\* [userId, courseId, captureId, ..., 'success', 'purchase', null])
CC_InsertTransaction(p) ==
    /\ pc[p] = "cc_insert_tx"
    /\ \E fail \in FaultChoices :
        IF fail
        THEN Throw(p) /\ UNCHANGED transactions
        ELSE /\ transactions' = InsertTransaction(transactions, local[p].userId,
                                    local[p].courseId, local[p].captureId,
                                    "success", "purchase", NoMessage)
             /\ Continue(p, "cc_cache_courses", local[p])
    /\ UNCHANGED <<user_courses, cache, notifications, paypalOrders>>
    /\ HookFrame

\* await cache.del(CACHE_KEYS.USER_COURSES(userId))
CC_CacheDelCourses(p) ==
    /\ pc[p] = "cc_cache_courses"
    /\ cache' = CacheDel(cache, USER_COURSES(local[p].userId))
    /\ Continue(p, "cc_cache_user", local[p])
    /\ UNCHANGED <<user_courses, transactions, notifications, paypalOrders>>
    /\ HookFrame

\* await cache.del(CACHE_KEYS.USER(userId))
CC_CacheDelUser(p) ==
    /\ pc[p] = "cc_cache_user"
    /\ cache' = CacheDel(cache, USER(local[p].userId))
    /\ Continue(p, "cc_notify", local[p])
    /\ UNCHANGED <<user_courses, transactions, notifications, paypalOrders>>
    /\ HookFrame

\* The notification without the try block: what the courier throws leaves
\* the handler.
NotifiedUncaught(p, sent) == IF sent THEN Return(p) ELSE Throw(p)

\* try { ... } catch (error) { logger.warn(...) } around the notification:
\* the handler returns whether the courier sent the message or threw.
Notified(p, sent) == Return(p)

\* try { await sendPurchaseConfirmationNotification(userId, course.title,
\* notificationMessageId) } catch { logger.warn(...) }: the courier sends or
\* throws, and the handler returns either way.
CC_Notify(p) ==
    /\ pc[p] = "cc_notify"
    /\ \E sent \in BOOLEAN :
        /\ notifications' = Append(notifications,
              [kind |-> "confirmation", user_id |-> local[p].userId,
               course_id |-> local[p].courseId,
               message_id |-> local[p].notificationMessageId, ok |-> sent])
        /\ Notified(p, sent)
    /\ UNCHANGED <<user_courses, transactions, cache, paypalOrders>>
    /\ HookFrame

Completed(p) ==
    \/ CC_SelectExisting(p)
    \/ CC_Grant(p)
    \/ CC_SelectPending(p)
    \/ CC_UpdateTransaction(p)
    \/ CC_InsertTransaction(p)
    \/ CC_CacheDelCourses(p)
    \/ CC_CacheDelUser(p)
    \/ CC_Notify(p)

(***************************************************************************)
(* handlePaymentCaptureDenied, handlePaymentCaptureRefunded and            *)
(* handleCheckoutOrderApproved.                                            *)
(***************************************************************************)
\* The statement with a bug: the denial is written onto the pending rows of
\* the user and the course, and inserted only when there is none.
RecordFailedOnPending(rows, userId, courseId, captureId) ==
    LET pending == {r \in rows : /\ r.user_id = userId
                                 /\ r.course_id = courseId
                                 /\ r.status = "pending"}
    IN  IF pending = {}
        THEN InsertTransaction(rows, userId, courseId, captureId, "failed",
                               "purchase", NoMessage)
        ELSE (rows \ pending) \cup
             {[r EXCEPT !.status = "failed", !.payment_id = captureId] :
                r \in pending}

\* INSERT INTO transactions (...) VALUES (userId, courseId, captureId, ...,
\* 'failed', 'purchase'): the row of a denied capture.
RecordFailed(rows, userId, courseId, captureId) ==
    InsertTransaction(rows, userId, courseId, captureId, "failed", "purchase",
                      NoMessage)

\* await query('INSERT INTO transactions ...', [..., 'failed', 'purchase'])
CD_InsertTransaction(p) ==
    /\ pc[p] = "cd_insert"
    /\ \E fail \in FaultChoices :
        IF fail
        THEN Throw(p) /\ UNCHANGED transactions
        ELSE /\ transactions' = RecordFailed(transactions, local[p].userId,
                                             local[p].courseId,
                                             local[p].captureId)
             /\ Return(p)
    /\ UNCHANGED <<user_courses, cache, notifications, paypalOrders>>
    /\ HookFrame

\* The refund with a bug: the row is deleted only when the refunded capture
\* is the one of the last success transaction of the user and the course.
CR_DeleteOfCapture(p) ==
    /\ pc[p] = "cr_delete"
    /\ LET paid == {r \in transactions :
                        /\ r.status = "success"
                        /\ r.user_id = local[p].userId
                        /\ r.course_id = local[p].courseId}
           last == {r \in paid : \A r2 \in paid : r2.id <= r.id}
       IN  user_courses' =
                IF \E r \in last : r.payment_id = local[p].captureId
                THEN DeleteUserCourse(user_courses, local[p].userId,
                                      local[p].courseId)
                ELSE user_courses
    /\ Continue(p, "cr_insert", local[p])
    /\ UNCHANGED <<transactions, cache, notifications, paypalOrders>>
    /\ HookFrame

\* await query('DELETE FROM user_courses WHERE user_id = ? AND course_id = ?')
CR_Delete(p) ==
    /\ pc[p] = "cr_delete"
    /\ \E fail \in FaultChoices :
        IF fail
        THEN Throw(p) /\ UNCHANGED user_courses
        ELSE /\ user_courses' = DeleteUserCourse(user_courses, local[p].userId,
                                                 local[p].courseId)
             /\ Continue(p, "cr_insert", local[p])
    /\ UNCHANGED <<transactions, cache, notifications, paypalOrders>>
    /\ HookFrame

\* The refund record with a bug: the success rows of the capture are turned
\* into refund rows, no row is added.
CR_MarkRefunded(p) ==
    /\ pc[p] = "cr_insert"
    /\ transactions' =
            {IF r.status = "success" /\ r.payment_id = local[p].captureId
             THEN [r EXCEPT !.status = "refunded", !.type = "refund"]
             ELSE r : r \in transactions}
    /\ Continue(p, "cr_cache", local[p])
    /\ UNCHANGED <<user_courses, cache, notifications, paypalOrders>>
    /\ HookFrame

\* await query('INSERT INTO transactions ...', [..., 'refunded', 'refund'])
CR_InsertTransaction(p) ==
    /\ pc[p] = "cr_insert"
    /\ \E fail \in FaultChoices :
        IF fail
        THEN Throw(p) /\ UNCHANGED transactions
        ELSE /\ transactions' = InsertTransaction(transactions, local[p].userId,
                                    local[p].courseId, local[p].captureId,
                                    "refunded", "refund", NoMessage)
             /\ Continue(p, "cr_cache", local[p])
    /\ UNCHANGED <<user_courses, cache, notifications, paypalOrders>>
    /\ HookFrame

\* await cache.del(CACHE_KEYS.USER_COURSES(userId))
CR_CacheDel(p) ==
    /\ pc[p] = "cr_cache"
    /\ cache' = CacheDel(cache, USER_COURSES(local[p].userId))
    /\ Return(p)
    /\ UNCHANGED <<user_courses, transactions, notifications, paypalOrders>>
    /\ HookFrame

Refunded(p) == CR_Delete(p) \/ CR_InsertTransaction(p) \/ CR_CacheDel(p)

\* The capture ids the provider may give the capture of an order.
CaptureIds == {"CAP1"}

\* const captureResult = await paypalService.captureOrder(orderId): the
\* provider captures and names the capture, or the call throws.  On success
\* the event is handed to handlePaymentCaptureCompleted with resource.id
\* replaced by the capture id; what is thrown is caught and logged.
OA_Capture(p) ==
    /\ pc[p] = "oa_capture"
    /\ \E captured \in BOOLEAN, captureId \in CaptureIds :
        IF captured
        THEN CompletedBegin(p, [request[p].event EXCEPT !.id = captureId], TRUE)
        ELSE Return(p)
    /\ UNCHANGED stores
    /\ HookFrame

(***************************************************************************)
(* createPurchaseOrder (POST /api/purchase/create), one action for each    *)
(* database, provider and courier call.                                    *)
(***************************************************************************)
\* Course ids a client may ask for: with metadata, without metadata, without
\* a directory.
RequestedCourses == {7, 8, 9}

\* The ids the provider gives the orders it creates, in order.
OrderIds == <<"ORDER1", "ORDER2", "ORDER3">>

PurchaseFrame == UNCHANGED <<config, auth, access, pure, pc, request, local, response, deliveries, faults>>

\* The request of user userId for course courseId fails: next(error) with
\* the status of the error.
PurchaseRejected(userId, courseId, status) ==
    po' = [NoPurchase EXCEPT !.pc = "done", !.userId = userId,
                             !.courseId = courseId, !.status = status]

\* The failure with a bug: the error is swallowed and the function goes on.
PurchaseFailsUnnoticed(status) == po' = [po EXCEPT !.pc = "po_notify"]

\* The request in progress fails.
PurchaseFails(status) == PurchaseRejected(po.userId, po.courseId, status)

\* The check with a bug: the result of the query is not looked at.
AlreadyPurchasedNever(rows, userId, courseId) == FALSE

\* `Check if already purchased`: purchased.length > 0 for the rows of
\* SELECT id FROM user_courses WHERE user_id = ? AND course_id = ?
AlreadyPurchased(rows, userId, courseId) ==
    SelectUserCourse(rows, userId, courseId) # {}

\* From the start of createPurchaseOrder to the `Check if already purchased`
\* query: 404 without course directory or metadata, 400 when the user holds
\* the course.
PO_BeginCore(userId, courseId) ==
    /\ po.pc \in {"idle", "done"}
    /\ orders < MaxOrders
    /\ orders' = orders + 1
    /\ \E fail \in FaultChoices :
        IF courseId \notin CourseDirs \/ courseId \notin CoursesWithMeta
        THEN PurchaseRejected(userId, courseId, 404)
        ELSE IF fail
        THEN PurchaseRejected(userId, courseId, 500)
        ELSE /\ IF AlreadyPurchased(user_courses, userId, courseId)
                THEN PurchaseRejected(userId, courseId, 400)
                ELSE po' = [NoPurchase EXCEPT !.pc = "po_create",
                                             !.userId = userId,
                                             !.courseId = courseId]
    /\ UNCHANGED stores
    /\ PurchaseFrame

PO_Begin(userId, courseId) == PO_BeginCore(userId, courseId) /\ UNCHANGED ghosts

\* const order = await paypalService.createOrder({..., custom_id: customId}):
\* the provider creates the order and names it, or the call throws.
PO_CreateOrder ==
    /\ po.pc = "po_create"
    /\ \E created \in BOOLEAN :
        IF created /\ Cardinality(paypalOrders) < Len(OrderIds)
        THEN LET orderId == OrderIds[Cardinality(paypalOrders) + 1]
             IN  /\ paypalOrders' = paypalOrders \cup
                        {[orderId |-> orderId,
                          custom_id |-> MakeCustomId(po.userId, po.courseId)]}
                 /\ po' = [po EXCEPT !.pc = "po_notify", !.orderId = orderId]
        ELSE PurchaseFails(500) /\ UNCHANGED paypalOrders
    /\ UNCHANGED <<user_courses, transactions, cache, notifications,
                   orders, ghosts>>
    /\ PurchaseFrame

\* try { notificationMessageId = await sendPurchaseProcessingNotification(...) }
\* catch { logger.warn(...) }: the courier answers the id of the message it
\* sent, or throws and the id stays null.
PO_Notify ==
    /\ po.pc = "po_notify"
    /\ \E sent \in BOOLEAN :
        /\ notifications' = Append(notifications,
              [kind |-> "processing", user_id |-> po.userId,
               course_id |-> po.courseId, message_id |-> NoMessage, ok |-> sent])
        /\ po' = [po EXCEPT !.pc = "po_insert",
                            !.messageId = IF sent THEN Len(notifications) + 1
                                          ELSE NoMessage]
    /\ UNCHANGED <<user_courses, transactions, cache, paypalOrders,
                   orders, ghosts>>
    /\ PurchaseFrame

\* await query('INSERT INTO transactions ...', [user.id, courseId,
\* order.orderId, ..., 'pending', 'purchase', notificationMessageId]), then
\* res.json({ success: true, ... }).
PO_InsertPending ==
    /\ po.pc = "po_insert"
    /\ \E fail \in FaultChoices :
        IF fail
        THEN PurchaseFails(500) /\ UNCHANGED transactions
        ELSE /\ transactions' = InsertTransaction(transactions, po.userId,
                                    po.courseId, po.orderId, "pending",
                                    "purchase", po.messageId)
             /\ po' = [po EXCEPT !.pc = "done", !.status = 200]
    /\ UNCHANGED <<user_courses, cache, notifications, paypalOrders, orders, ghosts>>
    /\ PurchaseFrame

(***************************************************************************)
(* The admin grant and revoke of a course.                                 *)
(***************************************************************************)
AdminFrame == UNCHANGED <<config, auth, access, pure, pc, request, local, response, po, deliveries,
                          orders, faults, transactions, notifications, paypalOrders>>

\* grantCourseToUser: INSERT OR IGNORE INTO user_courses, then
\* cache.del(CACHE_KEYS.USER_COURSES(userId)).
GrantCourseToUserCore(userId, courseId) ==
    /\ user_courses' = InsertOrIgnoreUserCourse(user_courses, userId, courseId)
    /\ cache' = CacheDel(cache, USER_COURSES(userId))
    /\ AdminFrame

\* revokeCourseFromUser: DELETE FROM user_courses, then
\* cache.del(CACHE_KEYS.USER_COURSES(userId)).
RevokeCourseFromUserCore(userId, courseId) ==
    /\ user_courses' = DeleteUserCourse(user_courses, userId, courseId)
    /\ cache' = CacheDel(cache, USER_COURSES(userId))
    /\ AdminFrame

GrantCourseToUser(userId, courseId) ==
    GrantCourseToUserCore(userId, courseId) /\ UNCHANGED ghosts

RevokeCourseFromUser(userId, courseId) ==
    RevokeCourseFromUserCore(userId, courseId) /\ UNCHANGED ghosts

(***************************************************************************)
(* The server after start with a configuration that lets a valid request   *)
(* through; no database call throws.                                       *)
(***************************************************************************)
InitSeq ==
    /\ config \in {[webhookId |-> FALSE, nodeEnv |-> "development"],
                   [webhookId |-> TRUE, nodeEnv |-> "production"]}
    /\ EmptyStores
    /\ IdleTasks
    /\ faults = FALSE
    /\ pre = EmptySnapshot
    /\ lastEvent = NoEvent
    /\ streak = 0

(***************************************************************************)
(* The concurrent specification: capture completed requests with verified  *)
(* signatures, order creation and admin grants and revokes, interleaved at *)
(* their awaits, on the production configuration.                          *)
(***************************************************************************)
InitConc ==
    /\ InitSeq
    /\ config = [webhookId |-> TRUE, nodeEnv |-> "production"]

Next ==
    \/ \E p \in Procs :
        \/ Receive(p)
        \/ HandlePayPalWebhook(p)
        \/ Completed(p)
    \/ \E u \in {1}, c \in {7} : PO_Begin(u, c)
    \/ PO_CreateOrder
    \/ PO_Notify
    \/ PO_InsertPending
    \/ \E u \in {1}, c \in {7} : GrantCourseToUser(u, c)
    \/ \E u \in {1}, c \in {7} : RevokeCourseFromUser(u, c)

Spec == InitConc /\ [][Next]_vars

(***************************************************************************)
(* The sequential environment: a request arrives only when no other is in  *)
(* flight, signatures are valid and no database call throws.  pre keeps    *)
(* the stores as they were before the current streak of deliveries of one  *)
(* event, lastEvent that event and streak how many times in a row it was   *)
(* delivered.                                                              *)
(***************************************************************************)
Quiet == (\A q \in Procs : Free(q)) /\ po.pc \in {"idle", "done"}

ForgetStreak ==
    /\ pre' = EmptySnapshot
    /\ lastEvent' = NoEvent
    /\ streak' = 0

ReceiveSeq(p) ==
    /\ Quiet
    /\ \E ev \in SeqEvents :
        /\ ReceiveEvent(p, ev, TRUE, MaxDeliveries)
        /\ IF ev = lastEvent
           THEN streak' = streak + 1 /\ UNCHANGED <<pre, lastEvent>>
           ELSE pre' = Snapshot /\ lastEvent' = ev /\ streak' = 1

PO_BeginSeq(userId, courseId) ==
    Quiet /\ PO_BeginCore(userId, courseId) /\ ForgetStreak

GrantCourseToUserSeq(userId, courseId) ==
    Quiet /\ GrantCourseToUserCore(userId, courseId) /\ ForgetStreak

RevokeCourseFromUserSeq(userId, courseId) ==
    Quiet /\ RevokeCourseFromUserCore(userId, courseId) /\ ForgetStreak

NextSeq ==
    \/ \E p \in Procs :
        \/ ReceiveSeq(p)
        \/ HandlePayPalWebhook(p)
        \/ Completed(p)
        \/ CD_InsertTransaction(p)
        \/ Refunded(p)
    \/ \E u \in {1}, c \in RequestedCourses : PO_BeginSeq(u, c)
    \/ PO_CreateOrder
    \/ PO_Notify
    \/ PO_InsertPending
    \/ \E u \in {1}, c \in {7} : GrantCourseToUserSeq(u, c)
    \/ \E u \in {1}, c \in {7} : RevokeCourseFromUserSeq(u, c)

SpecSeq == InitSeq /\ [][NextSeq]_vars

(***************************************************************************)
(* The duplicate-delivery environment: the provider delivers one capture   *)
(* completed event several times, the deliveries overlapping or not, while *)
(* the buyer may be creating the order; no database call throws.           *)
(***************************************************************************)
DupEvents ==
    {Event("PAYMENT.CAPTURE.COMPLETED", "CAP1", cid, o) :
        cid \in {MakeCustomId(1, 7), MakeCustomId(1, 8)}, o \in {NoId, "ORDER1"}}

ReceiveDup(p) ==
    \E ev \in DupEvents :
        /\ lastEvent \in {NoEvent, ev}
        /\ ReceiveEvent(p, ev, TRUE, MaxDeliveries)
        /\ lastEvent' = ev
        /\ streak' = streak + 1
        /\ pre' = IF streak = 0 THEN Snapshot ELSE pre

NextDup ==
    \/ \E p \in Procs :
        \/ ReceiveDup(p)
        \/ HandlePayPalWebhook(p)
        \/ Completed(p)
    \/ \E u \in {1}, c \in {7} : PO_Begin(u, c)
    \/ PO_CreateOrder
    \/ PO_Notify
    \/ PO_InsertPending

SpecDup == InitSeq /\ [][NextDup]_vars

(***************************************************************************)
(* The parsing environment: the sequential one, with events of every       *)
(* capture type and custom ids of every shape.                             *)
(***************************************************************************)
ReceiveParse(p) ==
    /\ Quiet
    /\ \E ev \in ParseEvents : ReceiveEvent(p, ev, TRUE, MaxDeliveries)
    /\ UNCHANGED ghosts

NextParse ==
    \/ \E p \in Procs :
        \/ ReceiveParse(p)
        \/ HandlePayPalWebhook(p)
        \/ Completed(p)
        \/ CD_InsertTransaction(p)
        \/ Refunded(p)
    \/ \E u \in {1}, c \in {7} : PO_BeginSeq(u, c)
    \/ PO_CreateOrder
    \/ PO_Notify
    \/ PO_InsertPending

SpecParse == InitSeq /\ [][NextParse]_vars

(***************************************************************************)
(* The dispatcher environment: one request at a time, in any               *)
(* configuration, with valid and invalid signatures, events of every type, *)
(* database calls that throw and provider captures that fail.              *)
(***************************************************************************)
ReceiveHook(p) ==
    /\ Quiet
    /\ \E ev \in Events, isValid \in BOOLEAN :
        ReceiveEvent(p, ev, isValid, MaxDeliveries)
    /\ UNCHANGED ghosts

NextHook ==
    \/ \E p \in Procs :
        \/ ReceiveHook(p)
        \/ HandlePayPalWebhook(p)
        \/ Completed(p)
        \/ CD_InsertTransaction(p)
        \/ Refunded(p)
        \/ OA_Capture(p)
    \/ \E u \in {1}, c \in {7} : PO_BeginSeq(u, c)
    \/ PO_CreateOrder
    \/ PO_Notify
    \/ PO_InsertPending

SpecHook == Init /\ [][NextHook]_vars

(***************************************************************************)
(* What the claims speak of.                                               *)
(***************************************************************************)
\* The transactions with status success and payment id paymentId.
SuccessRows(rows, paymentId) ==
    {r \in rows : r.status = "success" /\ r.payment_id = paymentId}

\* How many purchase confirmations the courier was asked to send.
Confirmations(log) ==
    Cardinality({i \in 1..Len(log) : log[i].kind = "confirmation"})

\* Event ev is a capture event of kind type for user u and course c.
IsCapture(ev, type, u, c) ==
    ev.event_type = type /\ ev.custom_id = MakeCustomId(u, c)

\* Every delivery so far is answered.
AllAnswered == \A p \in Procs : Free(p)

(***************************************************************************)
(* C1.  Sequential replay of a grant: when one PAYMENT.CAPTURE.COMPLETED   *)
(* event for a user without the entitlement, of a capture not recorded     *)
(* yet, was delivered twice or more in a row, each delivery after the one  *)
(* before was answered, there is exactly one user_courses row for (user,   *)
(* course), exactly one success transaction of that capture, and exactly   *)
(* one purchase confirmation was attempted.                                *)
(***************************************************************************)
C1_SequentialReplay ==
    \A u \in Users, c \in CoursesWithMeta :
        ( /\ Quiet
          /\ streak >= 2
          /\ IsCapture(lastEvent, "PAYMENT.CAPTURE.COMPLETED", u, c)
          /\ SelectUserCourse(pre.user_courses, u, c) = {}
          /\ SuccessRows(pre.transactions, lastEvent.id) = {} )
        => /\ Cardinality(SelectUserCourse(user_courses, u, c)) = 1
           /\ Cardinality(SuccessRows(transactions, lastEvent.id)) = 1
           /\ Confirmations(notifications) = Confirmations(pre.notifications) + 1

\* The second delivery of a granting event has been answered.
C1_Witness ==
    /\ Quiet
    /\ streak = 2
    /\ IsCapture(lastEvent, "PAYMENT.CAPTURE.COMPLETED", 1, 7)
    /\ lastEvent.order_id = "ORDER1"
    /\ SelectUserCourse(pre.user_courses, 1, 7) = {}
    /\ \E r \in pre.transactions : r.status = "pending" /\ r.payment_id = "ORDER1"
    /\ SuccessRows(pre.transactions, lastEvent.id) = {}
    /\ Cardinality(SelectUserCourse(user_courses, 1, 7)) = 1

C4_OrderToCapture ==
    \A u \in Users, c \in CoursesWithMeta :
        ( /\ Quiet
          /\ streak = 1
          /\ IsCapture(lastEvent, "PAYMENT.CAPTURE.COMPLETED", u, c)
          /\ lastEvent.order_id # NoId
          /\ SelectPending(pre.transactions, u, c, lastEvent.order_id) # {} )
        => LET row == CHOOSE r \in SelectPending(pre.transactions, u, c,
                                                 lastEvent.order_id) : TRUE
           IN  /\ Cardinality(transactions) = Cardinality(pre.transactions)
               /\ [row EXCEPT !.status = "success", !.payment_id = lastEvent.id]
                     \in transactions
               /\ SelectPending(transactions, u, c, lastEvent.order_id) = {}

(***************************************************************************)
(* C5.  Fallback insert: a PAYMENT.CAPTURE.COMPLETED event processed for a *)
(* user without the entitlement, when no pending transaction matches       *)
(* (user, course, order id) or the event carries no order id, adds exactly *)
(* one transaction, with status success, type purchase and the capture id  *)
(* as payment id, and leaves the rows there were unchanged.                *)
(***************************************************************************)
C5_FallbackInsert ==
    \A u \in Users, c \in CoursesWithMeta :
        ( /\ Quiet
          /\ streak = 1
          /\ IsCapture(lastEvent, "PAYMENT.CAPTURE.COMPLETED", u, c)
          /\ SelectUserCourse(pre.user_courses, u, c) = {}
          /\ \/ lastEvent.order_id = NoId
             \/ \A r \in pre.transactions :
                    ~( /\ r.user_id = u
                       /\ r.course_id = c
                       /\ r.status = "pending"
                       /\ r.payment_id = lastEvent.order_id ) )
        => \E new \in transactions \ pre.transactions :
              /\ transactions = pre.transactions \cup {new}
              /\ new.user_id = u
              /\ new.course_id = c
              /\ new.status = "success"
              /\ new.type = "purchase"
              /\ new.payment_id = lastEvent.id

\* A capture that references an order the server never recorded, while the
\* user has a pending transaction of another order: a success row was added.
C5_Witness ==
    /\ Quiet
    /\ streak = 1
    /\ IsCapture(lastEvent, "PAYMENT.CAPTURE.COMPLETED", 1, 7)
    /\ lastEvent.order_id = "ORDER9"
    /\ \E r \in pre.transactions : r.status = "pending" /\ r.user_id = 1
    /\ SelectUserCourse(pre.user_courses, 1, 7) = {}
    /\ SuccessRows(transactions, lastEvent.id) # {}

\* The refund transactions of (u, c) with payment id paymentId.
RefundRows(rows, u, c, paymentId) ==
    {r \in rows : /\ r.user_id = u
                  /\ r.course_id = c
                  /\ r.status = "refunded"
                  /\ r.type = "refund"
                  /\ r.payment_id = paymentId}

(***************************************************************************)
(* C6.  Refund after grant: a PAYMENT.CAPTURE.REFUNDED event processed for *)
(* a (user, course) that holds the entitlement removes it and adds exactly *)
(* one transaction, with status refunded; the same event processed once    *)
(* more leaves the entitlement absent, is answered without error and adds  *)
(* one more refunded transaction.                                          *)
(***************************************************************************)
C6_RefundAfterGrant ==
    \A u \in Users, c \in CourseDirs :
        ( /\ Quiet
          /\ streak \in {1, 2}
          /\ IsCapture(lastEvent, "PAYMENT.CAPTURE.REFUNDED", u, c)
          /\ SelectUserCourse(pre.user_courses, u, c) # {} )
        => /\ SelectUserCourse(user_courses, u, c) = {}
           /\ pre.transactions \subseteq transactions
           /\ transactions \ pre.transactions
                 \subseteq RefundRows(transactions, u, c, lastEvent.id)
           /\ Cardinality(transactions \ pre.transactions) = streak
           /\ \A p \in Procs :
                 pc[p] = "done" => response[p] = [status |-> 200, error |-> FALSE]

\* The second of two refunds of a granted course has been answered.
C6_Witness ==
    /\ Quiet
    /\ streak = 2
    /\ IsCapture(lastEvent, "PAYMENT.CAPTURE.REFUNDED", 1, 7)
    /\ SelectUserCourse(pre.user_courses, 1, 7) # {}
    /\ SelectUserCourse(user_courses, 1, 7) = {}
    /\ Cardinality(RefundRows(transactions, 1, 7, lastEvent.id)) = 2

(***************************************************************************)
(* C7.  Signature gate: when a webhook id is configured and the signature  *)
(* of a request is reported invalid, the one step handlePayPalWebhook      *)
(* takes on it answers 401, enters no event handler and leaves             *)
(* user_courses, transactions, the cache and the notifications as they     *)
(* were, whatever the event type.                                          *)
(***************************************************************************)
C7_SignatureGate ==
    [][ \A p \in Procs :
          ( /\ pc[p] = "received"
            /\ pc'[p] # "received"
            /\ config.webhookId
            /\ ~request[p].sigValid )
          => /\ pc'[p] = "done"
             /\ response'[p].status = 401
             /\ UNCHANGED <<user_courses, transactions, cache, notifications>> ]_vars

\* A request was answered 401.
C7_Witness ==
    \E p \in Procs : pc[p] = "done" /\ response[p].status = 401 /\ config.webhookId

(***************************************************************************)
(* C8.  Fail closed in production: without a webhook id in production no   *)
(* webhook request ever enters an event handler, each is answered 500, and *)
(* the store holds nothing a webhook handler writes: no entitlement, no    *)
(* transaction other than the pending ones of createPurchaseOrder, no      *)
(* purchase confirmation.                                                  *)
(***************************************************************************)
C8_FailClosed ==
    (~config.webhookId /\ config.nodeEnv = "production")
    => /\ \A p \in Procs :
            /\ pc[p] \in {"idle", "received", "done"}
            /\ pc[p] = "done" => response[p].status = 500
       /\ user_courses = {}
       /\ \A r \in transactions : r.status = "pending"
       /\ Confirmations(notifications) = 0

\* A request was answered 500 in that configuration.
C8_Witness ==
    /\ ~config.webhookId
    /\ config.nodeEnv = "production"
    /\ \E p \in Procs : pc[p] = "done" /\ response[p].status = 500

\* The request of p is verified, or not verified outside production.
PassesGate(p) ==
    \/ config.webhookId /\ request[p].sigValid
    \/ ~config.webhookId /\ config.nodeEnv # "production"

(***************************************************************************)
(* C9.  Always acknowledge: a request that passed the signature gate       *)
(* (verified, or not verified outside production) is answered 200,         *)
(* whatever the event and whatever its handler does, a database call that  *)
(* throws, a provider capture that fails and an unknown event type         *)
(* included.                                                               *)
(***************************************************************************)
C9_AlwaysAcknowledge ==
    [][ \A p \in Procs :
          ( /\ pc[p] # "done"
            /\ pc'[p] = "done"
            /\ (pc[p] = "received" => PassesGate(p)) )
          => response'[p].status = 200 ]_vars

\* A handler threw and the request was answered 200 with the error flag.
C9_Witness ==
    \E p \in Procs : pc[p] = "done" /\ response[p] = [status |-> 200, error |-> TRUE]

\* s is user_<digits>_course_<digits> and nothing else, the first digits
\* ending at position k.
ExactFormAt(s, k) ==
    /\ HasAt(s, 1, USER_)
    /\ k >= 6
    /\ \A i \in 6..k : IsDigit(s[i])
    /\ HasAt(s, k + 1, COURSE_)
    /\ k + 9 <= Len(s)
    /\ \A i \in (k + 9)..Len(s) : IsDigit(s[i])

(***************************************************************************)
(* C10.  Strict custom-id parsing: a capture handler goes on with a (user  *)
(* id, course id) pair only for a custom id of the exact form              *)
(* user_<digits>_course_<digits>, and then with exactly the pair it names; *)
(* an event with any other custom id is dropped.                           *)
(***************************************************************************)
C10_StrictParsing ==
    \A p \in Procs :
        pc[p] \in {"cc_select", "cd_insert", "cr_delete"}
        => \E k \in 1..Len(request[p].event.custom_id) :
              /\ ExactFormAt(request[p].event.custom_id, k)
              /\ local[p].userId =
                    parseInt(SubSeq(request[p].event.custom_id, 6, k))
              /\ local[p].courseId =
                    parseInt(SubSeq(request[p].event.custom_id, k + 9,
                                    Len(request[p].event.custom_id)))

(***************************************************************************)
(* The crash environment: the sequential one, with database calls that     *)
(* throw, so that a handler may stop between two of its writes; the        *)
(* provider delivers the event again.  The user reads the list of their    *)
(* courses, which fills the cache.                                         *)
(***************************************************************************)
\* getUserCourses of user userId, handled while no other request is in
\* flight: a cached list is answered as it is; otherwise the courses of the
\* user are read from user_courses and the list is cached.
GetUserCoursesSeq(userId) ==
    /\ Quiet
    /\ USER_COURSES(userId) \notin DOMAIN cache
    /\ cache' = CacheSet(cache, USER_COURSES(userId),
                         {r.course_id : r \in {x \in user_courses :
                                                  x.user_id = userId}})
    /\ ForgetStreak
    /\ UNCHANGED <<config, auth, access, pure, user_courses, transactions, notifications,
                   paypalOrders, pc, request, local, response, po, counters,
                   faults>>

CrashEvents ==
    {Event("PAYMENT.CAPTURE.COMPLETED", "CAP1", MakeCustomId(1, 7), o) :
        o \in {NoId, "ORDER1"}}

InitCrash ==
    /\ config = [webhookId |-> TRUE, nodeEnv |-> "production"]
    /\ EmptyStores
    /\ IdleTasks
    /\ faults = TRUE
    /\ pre = EmptySnapshot
    /\ lastEvent = NoEvent
    /\ streak = 0

ReceiveCrash(p) ==
    /\ Quiet
    /\ \E ev \in CrashEvents :
        /\ ReceiveEvent(p, ev, TRUE, MaxDeliveries)
        /\ IF ev = lastEvent
           THEN streak' = streak + 1 /\ UNCHANGED <<pre, lastEvent>>
           ELSE pre' = Snapshot /\ lastEvent' = ev /\ streak' = 1

NextCrash ==
    \/ \E p \in Procs :
        \/ ReceiveCrash(p)
        \/ HandlePayPalWebhook(p)
        \/ Completed(p)
    \/ \E u \in {1}, c \in {7} : PO_BeginSeq(u, c)
    \/ PO_CreateOrder
    \/ PO_Notify
    \/ PO_InsertPending
    \/ \E u \in {1} : GetUserCoursesSeq(u)

SpecCrash == InitCrash /\ [][NextCrash]_vars

(***************************************************************************)
(* C11.  Crash recovery of reconciliation: when a PAYMENT.CAPTURE.COMPLETED *)
(* event that references order O was delivered to a user without the       *)
(* entitlement and with a pending transaction of O, and was delivered      *)
(* again, a redelivery that is answered without error leaves no pending    *)
(* transaction of O, also when an earlier delivery stopped between the     *)
(* insert of the entitlement and the update of the transaction.            *)
(***************************************************************************)
C11_CrashRecovery ==
    \A u \in Users, c \in CoursesWithMeta :
        ( /\ Quiet
          /\ streak >= 2
          /\ IsCapture(lastEvent, "PAYMENT.CAPTURE.COMPLETED", u, c)
          /\ lastEvent.order_id # NoId
          /\ SelectUserCourse(pre.user_courses, u, c) = {}
          /\ SelectPending(pre.transactions, u, c, lastEvent.order_id) # {}
          /\ \A p \in Procs :
                pc[p] = "done" => response[p] = [status |-> 200, error |-> FALSE] )
        => SelectPending(transactions, u, c, lastEvent.order_id) = {}

(***************************************************************************)
(* The environment of one logical payment: createPurchaseOrder records the *)
(* order, and the provider delivers the capture completed, denied and      *)
(* refunded events of its capture one at a time, in any order and any      *)
(* number of times.                                                        *)
(***************************************************************************)
\* Deliveries of the events of the payment in one behaviour.
MaxPaymentDeliveries == 3

PaymentEvents ==
    {Event("PAYMENT.CAPTURE.COMPLETED", "CAP1", MakeCustomId(1, 7), "ORDER1")}
    \cup {Event(t, "CAP1", MakeCustomId(1, 7), NoId) :
            t \in {"PAYMENT.CAPTURE.DENIED", "PAYMENT.CAPTURE.REFUNDED"}}

ReceivePayment(p) ==
    /\ Quiet
    /\ \E ev \in PaymentEvents :
        /\ ReceiveEvent(p, ev, TRUE, MaxPaymentDeliveries)
        /\ UNCHANGED ghosts

NextPayment ==
    \/ \E p \in Procs :
        \/ ReceivePayment(p)
        \/ HandlePayPalWebhook(p)
        \/ Completed(p)
        \/ CD_InsertTransaction(p)
        \/ Refunded(p)
    \/ \E u \in {1}, c \in {7} : PO_BeginSeq(u, c)
    \/ PO_CreateOrder
    \/ PO_Notify
    \/ PO_InsertPending

SpecPayment == InitSeq /\ [][NextPayment]_vars

(***************************************************************************)
(* C12.  No second success row under reordering and duplication: whatever  *)
(* the order and the number of the deliveries of the capture completed,    *)
(* denied and refunded events of one payment, the transactions table holds *)
(* at most one row with status success and the capture id of the payment.  *)
(***************************************************************************)
C12_NoSecondSuccess ==
    \A captureId \in CaptureIds :
        Cardinality(SuccessRows(transactions, captureId)) <= 1

\* A createPurchaseOrder request of user u for course c starts in this step.
PurchaseStarts(u, c) ==
    /\ orders' = orders + 1
    /\ po'.userId = u
    /\ po'.courseId = c

(***************************************************************************)
(* C13.  createPurchaseOrder of a user who already holds the course is     *)
(* rejected: the request ends at the check with the client error "Course   *)
(* already purchased" (status 400) handed to the caller, and the provider  *)
(* is not called, no notification is sent, no transaction row is inserted  *)
(* and user_courses is left as it was.                                     *)
(***************************************************************************)
C13_AlreadyPurchasedRejected ==
    [][\A u \in Users, c \in RequestedCourses :
        (PurchaseStarts(u, c) /\ SelectUserCourse(user_courses, u, c) # {})
        => /\ po'.pc = "done"
           /\ po'.status = 400
           /\ paypalOrders' = paypalOrders
           /\ notifications' = notifications
           /\ transactions' = transactions
           /\ user_courses' = user_courses]_vars

C13_Witness ==
    /\ po.pc = "done"
    /\ po.status = 400
    /\ po.userId = 1
    /\ po.courseId = 7
    /\ SelectUserCourse(user_courses, 1, 7) # {}
    /\ paypalOrders = {}

\* String s reads user_<u>_course_<c>, the ids in decimal digits.
NamesUserAndCourse(s, u, c) ==
    /\ \E k \in 1..Len(s) : ExactFormAt(s, k)
    /\ ParseCustomId(s) = [ok |-> TRUE, userId |-> u, courseId |-> c]

\* Among the orders created at the provider is order orderId, with a custom
\* id that names u and c.
ProviderOrderOf(created, orderId, u, c) ==
    \E o \in created :
        o.orderId = orderId /\ NamesUserAndCourse(o.custom_id, u, c)

\* Row r is what createPurchaseOrder records for user u, course c and order
\* orderId.
IsPendingPurchase(r, u, c, orderId) ==
    /\ r.status = "pending"
    /\ r.type = "purchase"
    /\ r.user_id = u
    /\ r.course_id = c
    /\ r.payment_id = orderId

\* Every pending row of rows is the row of an order of created, the orders
\* createPurchaseOrder created at the provider.
PendingRowsComeFromOrders(rows, created) ==
    \A r \in rows :
        r.status = "pending"
        => /\ r.type = "purchase"
           /\ ProviderOrderOf(created, r.payment_id, r.user_id, r.course_id)

\* What a step of createPurchaseOrder does to the stores.
PurchaseStep ==
    po' # po =>
        /\ user_courses' = user_courses
        /\ (po.pc = "po_create" /\ po'.pc = "po_notify")
           => /\ \E o \in paypalOrders' \ paypalOrders :
                    paypalOrders' = paypalOrders \cup {o}
              /\ ProviderOrderOf(paypalOrders', po'.orderId, po.userId, po.courseId)
        /\ IF po'.pc = "done" /\ po'.status = 200
           THEN \E r \in transactions' \ transactions :
                    /\ transactions' = transactions \cup {r}
                    /\ IsPendingPurchase(r, po.userId, po.courseId, po.orderId)
                    /\ ProviderOrderOf(paypalOrders, po.orderId, po.userId, po.courseId)
           ELSE transactions' = transactions

(***************************************************************************)
(* C14.  A successful createPurchaseOrder of user u for course c creates a *)
(* provider order with custom id user_<u>_course_<c> and inserts exactly   *)
(* one transaction row: pending, purchase, user u, course c, payment id    *)
(* the order id of the provider.  No step of it changes user_courses, and  *)
(* after every step of the system every pending row of the table is the    *)
(* row of such an order.                                                   *)
(***************************************************************************)
C14_PendingOrder ==
    [][/\ PurchaseStep
       /\ PendingRowsComeFromOrders(transactions', paypalOrders')]_vars

C14_Witness ==
    /\ po.pc = "done"
    /\ po.status = 200
    /\ ProviderOrderOf(paypalOrders, po.orderId, 1, 7)
    /\ \E r \in transactions : IsPendingPurchase(r, 1, 7, po.orderId)
    /\ Cardinality(transactions) = 1

\* Course c does not exist: its directory or its metadata is missing.
CourseMissing(c) == c \notin CourseDirs \/ c \notin CoursesWithMeta

\* The request ends in this step with an error handed to the caller, and the
\* step writes nothing.
PurchaseEndsInError ==
    /\ po'.pc = "done"
    /\ po'.status >= 400
    /\ transactions' = transactions
    /\ paypalOrders' = paypalOrders
    /\ notifications' = notifications
    /\ user_courses' = user_courses

\* The create-order call of the provider fails in this step: the request was
\* at the call and no order was created.
CreateOrderFails ==
    /\ po.pc = "po_create"
    /\ po' # po
    /\ paypalOrders' = paypalOrders

(***************************************************************************)
(* C15.  createPurchaseOrder for a course without directory or without     *)
(* metadata ends with the not-found error (404) handed to the caller       *)
(* before the provider is called; when the create-order call of the        *)
(* provider fails, the request ends at once with the error handed to the   *)
(* caller, the call is not made again; in both cases no transaction row is *)
(* inserted.                                                               *)
(***************************************************************************)
C15_PurchaseFailure ==
    [][/\ \A u \in Users, c \in RequestedCourses :
            (PurchaseStarts(u, c) /\ CourseMissing(c))
            => (PurchaseEndsInError /\ po'.status = 404)
       /\ CreateOrderFails => PurchaseEndsInError]_vars

C15_Witness ==
    /\ po.pc = "done"
    /\ po.status = 500
    /\ po.courseId = 7
    /\ ~faults
    /\ paypalOrders = {}
    /\ transactions = {}

(***************************************************************************)
(* C16.  Frame of the denial handler: when a PAYMENT.CAPTURE.DENIED event  *)
(* with the custom id of user u and course c was delivered and answered,   *)
(* the transactions table is the one before the delivery plus exactly one  *)
(* new row, with status failed, for u, c and the capture id of the event;  *)
(* every row that was there, the pending row of the order among them, is   *)
(* as it was, and user_courses, cache and notifications are as they were.  *)
(***************************************************************************)
C16_DenialFrame ==
    \A u \in Users, c \in CoursesWithMeta :
        ( /\ Quiet
          /\ streak = 1
          /\ IsCapture(lastEvent, "PAYMENT.CAPTURE.DENIED", u, c) )
        => /\ \E r \in transactions \ pre.transactions :
                /\ transactions = pre.transactions \cup {r}
                /\ r.status = "failed"
                /\ r.type = "purchase"
                /\ r.user_id = u
                /\ r.course_id = c
                /\ r.payment_id = lastEvent.id
           /\ user_courses = pre.user_courses
           /\ cache = pre.cache
           /\ notifications = pre.notifications

C16_Witness ==
    /\ Quiet
    /\ streak = 1
    /\ IsCapture(lastEvent, "PAYMENT.CAPTURE.DENIED", 1, 7)
    /\ \E r \in pre.transactions : r.status = "pending"
    /\ \E r \in transactions : r.status = "pending" /\ r.payment_id = "ORDER1"
    /\ \E r \in transactions : r.status = "failed"

\* The custom id of event ev is absent or is not of the form
\* user_<digits>_course_<digits>, or the course it names does not exist.
DomainDataError(ev) ==
    \/ Len(ev.custom_id) = 0
    \/ ~\E k \in 1..Len(ev.custom_id) : ExactFormAt(ev.custom_id, k)
    \/ CourseMissing(ParseCustomId(ev.custom_id).courseId)

\* Task p, which handles a request it received before, takes this step.
TaskSteps(p) ==
    /\ ~Free(p)
    /\ pc'[p] # pc[p]

(***************************************************************************)
(* C17.  Domain-data errors are no-ops: while a PAYMENT.CAPTURE.COMPLETED  *)
(* event whose custom id is absent or malformed, or names a course without *)
(* directory or metadata, is handled, no step changes user_courses,        *)
(* transactions or the cache or sends a notification, and the request is   *)
(* answered 200 without error.                                             *)
(***************************************************************************)
C17_DomainErrorsNoOp ==
    [][\A p \in Procs :
        ( /\ TaskSteps(p)
          /\ request[p].event.event_type = "PAYMENT.CAPTURE.COMPLETED"
          /\ DomainDataError(request[p].event) )
        => /\ user_courses' = user_courses
           /\ transactions' = transactions
           /\ cache' = cache
           /\ notifications' = notifications
           /\ pc'[p] = "done"
           /\ response'[p] = [status |-> 200, error |-> FALSE]]_vars

\* The last entry of the notification log is a purchase confirmation for u
\* and c the courier failed to send, and it is the only entry since the stores
\* were recorded in pre.
ConfirmationThrew(u, c) ==
    /\ Len(notifications) = Len(pre.notifications) + 1
    /\ SubSeq(notifications, 1, Len(pre.notifications)) = pre.notifications
    /\ LET n == notifications[Len(notifications)]
       IN  /\ n.kind = "confirmation"
           /\ n.user_id = u
           /\ n.course_id = c
           /\ ~n.ok

(***************************************************************************)
(* C18.  Notification is best effort: when a PAYMENT.CAPTURE.COMPLETED     *)
(* event for user u and course c was handled and the purchase confirmation *)
(* threw, the user_courses row of (u, c) and one success transaction of    *)
(* the capture are in the store, the cache keys of the user are deleted,   *)
(* and the request is answered 200 without error.                          *)
(***************************************************************************)
C18_BestEffortNotification ==
    \A u \in Users, c \in CoursesWithMeta :
        ( /\ Quiet
          /\ streak = 1
          /\ IsCapture(lastEvent, "PAYMENT.CAPTURE.COMPLETED", u, c)
          /\ ConfirmationThrew(u, c) )
        => /\ Cardinality(SelectUserCourse(user_courses, u, c)) = 1
           /\ Cardinality(SuccessRows(transactions, lastEvent.id)) = 1
           /\ USER_COURSES(u) \notin DOMAIN cache
           /\ USER(u) \notin DOMAIN cache
           /\ \A p \in Procs :
                pc[p] = "done" => response[p] = [status |-> 200, error |-> FALSE]

C18_Witness ==
    /\ Quiet
    /\ streak = 1
    /\ IsCapture(lastEvent, "PAYMENT.CAPTURE.COMPLETED", 1, 7)
    /\ ConfirmationThrew(1, 7)
    /\ USER_COURSES(1) \in DOMAIN pre.cache
    /\ SelectUserCourse(pre.user_courses, 1, 7) = {}
    /\ SelectUserCourse(user_courses, 1, 7) # {}
    /\ pc[1] = "done"

(***************************************************************************)
(* C19.  Auto-capture reconciliation: when the handling of a               *)
(* CHECKOUT.ORDER.APPROVED event of order O, after the provider captured   *)
(* the order with capture id C, writes the transactions table while O has  *)
(* a pending transaction, the write turns that row into success with       *)
(* payment id C: no row is added and no pending row of O is left.          *)
(***************************************************************************)
C19_AutoCaptureReconciles ==
    [][\A p \in Procs :
        LET u == local[p].userId
            c == local[p].courseId
            O == request[p].event.id
            pending == SelectPending(transactions, u, c, O)
        IN  ( /\ TaskSteps(p)
              /\ request[p].event.event_type = "CHECKOUT.ORDER.APPROVED"
              /\ transactions' # transactions
              /\ pending # {} )
            => /\ {r.id : r \in transactions'} = {r.id : r \in transactions}
               /\ SelectPending(transactions', u, c, O) = {}
               /\ \E r \in transactions' :
                    /\ r.id \in {x.id : x \in pending}
                    /\ r.status = "success"
                    /\ r.payment_id = local[p].captureId]_vars

(***************************************************************************)
(* authMiddleware: the validation of the x-telegram-init-data header and   *)
(* the replay guard.  The guard reads the cache, then looks the hash up in *)
(* the Map of the process and marks it, then writes the cache; a request   *)
(* gives up control at the two cache calls.  The users table is not        *)
(* modelled: the lookup of the user after the guard is one step that ends  *)
(* with next() or with a database error.                                   *)
(***************************************************************************)
\* Authenticated requests in one behaviour.
MaxAuthRequests == 3
\* How far the clock runs.
MaxTime == 3

\* The values of the x-telegram-init-data header that clients send.
InitDatas == {"A", "B"}

\* normalizeInitDataTtl(config.telegram.initDataMaxAgeSeconds), in the units
\* of now.
InitDataTtl == 2

\* users.telegram_id of the row with id u: the id Telegram gave the account,
\* which is not the number of the row.
TelegramIdOfUser(u) == 100 + u

\* The telegram id in the user field of an init-data value: "A" is sent by
\* user 1, "B" by user 2.
TelegramIdOf(initData) ==
    IF initData = "A" THEN TelegramIdOfUser(1) ELSE TelegramIdOfUser(2)

\* The telegram id of the demo user of a request without x-demo-user.
DemoTelegramId == -1

\* crypto.createHash('sha256').update(value).digest('hex'): distinct values
\* have distinct digests.
hashInitData(value) == <<"sha256", value>>

\* CACHE_KEYS.INIT_DATA(hash)
INIT_DATA(hash) == <<"telegram:init-data", hash>>

\* cleanupInitDataReplayStore at time t: entries with expiresAt <= t go.
cleanupInitDataReplayStore(store, t) ==
    [h \in {x \in DOMAIN store : store[x] > t} |-> store[h]]

\* The lookup with a bug: the Map of the process is not consulted.
isInitDataReplayNever(store, t, hash) == FALSE

\* isInitDataReplay(hash) at time t.
isInitDataReplay(store, t, hash) ==
    hash \in DOMAIN cleanupInitDataReplayStore(store, t)

\* markInitDataAsUsed(hash, ttl) at time t.
markInitDataAsUsed(store, t, hash, ttl) ==
    LET cleaned == cleanupInitDataReplayStore(store, t)
    IN  [h \in (DOMAIN cleaned) \cup {hash} |->
            IF h = hash THEN t + ttl ELSE cleaned[h]]

AuthFrame ==
    UNCHANGED <<config, user_courses, transactions, notifications, paypalOrders,
                pc, request, local, response, po, counters, faults, ghosts,
                authConfig, access, pure>>

AuthFree(p) == authPc[p] \in {"idle", "done"}
AuthFirstFree(p) == AuthFree(p) /\ \A q \in Procs : AuthFree(q) => ~(q < p)

\* Request p goes on at label.
AuthContinue(p, label, req) ==
    /\ authPc' = [authPc EXCEPT ![p] = label]
    /\ authReq' = [authReq EXCEPT ![p] = req]

\* Request p ends: next() (status 200) or next(error) with the status of the
\* error.
AuthEnds(p, status) ==
    AuthContinue(p, "done", [authReq[p] EXCEPT !.status = status])

\* A request arrives and authMiddleware runs up to its first cache call: in
\* demo mode to getOrCreateDemoUser; otherwise 401 without the header, 500
\* without a bot token, 401 when validate throws or the init data names no
\* user, else on to cache.get(replayKey).
AM_Begin(p) ==
    /\ AuthFirstFree(p)
    /\ authRequests < MaxAuthRequests
    /\ authRequests' = authRequests + 1
    /\ \E initData \in InitDatas \cup {NoId}, valid \in BOOLEAN :
        LET req == [NoAuthRequest EXCEPT !.initData = initData]
            rejected(status) ==
                AuthContinue(p, "done", [req EXCEPT !.status = status])
        IN  IF authConfig.demoMode THEN AuthContinue(p, "am_demo", req)
            ELSE IF initData = NoId THEN rejected(401)
            ELSE IF ~authConfig.botToken THEN rejected(500)
            ELSE IF ~valid THEN rejected(401)
            ELSE AuthContinue(p, "am_get", req)
    /\ UNCHANGED <<cache, initDataReplayStore, now, passed>>
    /\ AuthFrame

\* getOrCreateDemoUser: the cached demo user, or a new one that is cached.
AM_Demo(p) ==
    /\ authPc[p] = "am_demo"
    /\ cache' = IF USER(DemoTelegramId) \in DOMAIN cache THEN cache
                ELSE CacheSet(cache, USER(DemoTelegramId), "demo")
    /\ AuthEnds(p, 200)
    /\ UNCHANGED <<initDataReplayStore, now, passed, authRequests>>
    /\ AuthFrame

\* const seenInCache = await cache.get<boolean>(replayKey): the entry, or
\* null when there is none, when it expired or when the cache is not
\* available.
AM_CacheGet(p) ==
    /\ authPc[p] = "am_get"
    /\ \E seen \in (IF INIT_DATA(hashInitData(authReq[p].initData)) \in DOMAIN cache
                    THEN {"hit", "miss"} ELSE {"miss"}) :
        AuthContinue(p, "am_check", [authReq[p] EXCEPT !.seenInCache = seen])
    /\ UNCHANGED <<cache, initDataReplayStore, now, passed, authRequests>>
    /\ AuthFrame

\* if (seenInCache || isInitDataReplay(initDataHash)) throw 401;
\* markInitDataAsUsed(initDataHash, initDataTtl): one synchronous piece of
\* code.  isInitDataReplay is not called when seenInCache is true.
AM_Check(p) ==
    /\ authPc[p] = "am_check"
    /\ LET hash == hashInitData(authReq[p].initData)
       IN  IF authReq[p].seenInCache = "hit"
           THEN /\ AuthEnds(p, 401)
                /\ UNCHANGED <<initDataReplayStore, passed>>
           ELSE IF isInitDataReplay(initDataReplayStore, now, hash)
           THEN /\ AuthEnds(p, 401)
                /\ initDataReplayStore' =
                        cleanupInitDataReplayStore(initDataReplayStore, now)
                /\ UNCHANGED passed
           ELSE /\ initDataReplayStore' =
                        markInitDataAsUsed(initDataReplayStore, now, hash,
                                           InitDataTtl)
                /\ passed' = Append(passed, [initData |-> authReq[p].initData,
                                             at |-> now])
                /\ AuthContinue(p, "am_set", [authReq[p] EXCEPT !.passed = TRUE])
    /\ UNCHANGED <<cache, now, authRequests>>
    /\ AuthFrame

\* await cache.set(replayKey, true, initDataTtl): nothing is stored when the
\* cache is not available.
AM_CacheSet(p) ==
    /\ authPc[p] = "am_set"
    /\ \E stored \in BOOLEAN :
        cache' = IF stored
                 THEN CacheSet(cache, INIT_DATA(hashInitData(authReq[p].initData)),
                               TRUE)
                 ELSE cache
    /\ AuthContinue(p, "am_user", authReq[p])
    /\ UNCHANGED <<initDataReplayStore, now, passed, authRequests>>
    /\ AuthFrame

\* Get or create the user, cache it and call next(); a database call that
\* throws ends the request with next(error).
AM_User(p) ==
    /\ authPc[p] = "am_user"
    /\ \E found \in BOOLEAN :
        IF found
        THEN /\ cache' = CacheSet(cache, USER(TelegramIdOf(authReq[p].initData)),
                                  "user")
             /\ AuthEnds(p, 200)
        ELSE /\ UNCHANGED cache
             /\ AuthEnds(p, 500)
    /\ UNCHANGED <<initDataReplayStore, now, passed, authRequests>>
    /\ AuthFrame

\* Time passes.
Tick ==
    /\ now < MaxTime
    /\ now' = now + 1
    /\ UNCHANGED <<cache, initDataReplayStore, authPc, authReq, passed,
                   authRequests>>
    /\ AuthFrame

\* The server after start, in demo mode or not, with or without bot token.
InitAuth ==
    /\ config = [webhookId |-> TRUE, nodeEnv |-> "production"]
    /\ authConfig \in [demoMode : BOOLEAN, botToken : BOOLEAN]
    /\ EmptyStores
    /\ AuthIdle
    /\ cloudflare = TRUE
    /\ AccessIdle
    /\ PureIdle
    /\ pc = [p \in Procs |-> "idle"]
    /\ request = [p \in Procs |-> NoRequest]
    /\ local = [p \in Procs |-> NoLocal]
    /\ response = [p \in Procs |-> NoResponse]
    /\ po = NoPurchase
    /\ deliveries = 0
    /\ orders = 0
    /\ faults = FALSE
    /\ pre = EmptySnapshot
    /\ lastEvent = NoEvent
    /\ streak = 0

NextAuth ==
    \/ \E p \in Procs :
        \/ AM_Begin(p)
        \/ AM_Demo(p)
        \/ AM_CacheGet(p)
        \/ AM_Check(p)
        \/ AM_CacheSet(p)
        \/ AM_User(p)
    \/ Tick

SpecAuth == InitAuth /\ [][NextAuth]_vars

(***************************************************************************)
(* C20.  Init-data replay guard: outside demo mode, two requests with the  *)
(* same x-telegram-init-data value get past the guard of one process only  *)
(* when the second comes a whole TTL or more after the first; every other  *)
(* request with a value that got past the guard, processed later or at the *)
(* same time, is answered 401, however the requests interleave at the      *)
(* cache calls.                                                            *)
(***************************************************************************)
C20_ReplayGuard ==
    ~authConfig.demoMode =>
        /\ \A i, j \in 1..Len(passed) :
            (i < j /\ passed[i].initData = passed[j].initData)
            => passed[j].at >= passed[i].at + InitDataTtl
        /\ \A p \in Procs :
            ( /\ authPc[p] = "done"
              /\ ~authReq[p].passed
              /\ \E i \in 1..Len(passed) : passed[i].initData = authReq[p].initData )
            => authReq[p].status = 401

C20_Witness ==
    /\ ~authConfig.demoMode
    /\ \E p, q \in Procs :
        /\ authPc[p] = "done"
        /\ authReq[p].passed
        /\ authReq[p].status = 200
        /\ authPc[q] = "done"
        /\ authReq[q].initData = authReq[p].initData
        /\ authReq[q].seenInCache = "miss"
        /\ authReq[q].status = 401

(***************************************************************************)
(* The requests that read the entitlements.  The identity of a request is  *)
(* what authMiddleware or optionalAuthMiddleware left on it: req.user,     *)
(* req.userId and req.telegramId of one user, or none of the three.        *)
(* extractVideoId and the signing service are outside this code and are    *)
(* modelled by their outcomes.                                             *)
(***************************************************************************)
\* generateSignedUrl and lessons requests in one behaviour.
MaxReads == 2

Anonymous == [user |-> NoUser, userId |-> NoUser, telegramId |-> NoUser]

Identities ==
    {Anonymous} \cup
    {[user |-> u, userId |-> u, telegramId |-> TelegramIdOfUser(u)] : u \in Users}

\* req.user?.id ?? req.userId ?? req.telegramId
AuthenticatedUserId(identity) ==
    IF identity.user # NoUser THEN identity.user
    ELSE IF identity.userId # NoUser THEN identity.userId
    ELSE identity.telegramId

\* The video ids clients send: none, one extractVideoId rejects, one it
\* accepts.
VideoIds == {NoVideo, "not-a-video", "video1"}
ExtractableVideoIds == {"video1"}

\* The course ids of the body of a sign-url request: none, with and without
\* metadata.
StreamCourses == {NoCourse, 7, 8}

\* The check with a bug: the course is left out of the WHERE clause.
PurchasedAnyCourse(rows, userId, courseId) ==
    \E r \in rows : r.user_id = userId

\* purchased.length > 0 for the rows of
\* SELECT id FROM user_courses WHERE user_id = ? AND course_id = ?
Purchased(rows, userId, courseId) ==
    SelectUserCourse(rows, userId, courseId) # {}

AccessFrame ==
    UNCHANGED <<config, user_courses, transactions, notifications, paypalOrders,
                pc, request, local, response, po, counters, faults, ghosts,
                auth, pure, cloudflare, courses>>

\* The sign-url request is answered with status.
StreamAnswers(status) == stream' = [stream EXCEPT !.pc = "done", !.status = status]

\* generateSignedUrl up to its database call: 400 without a course id or a
\* video id the service knows, 503 when the service is not configured, 401
\* without a user.
SU_Begin(identity, courseId, videoId) ==
    /\ stream.pc \in {"idle", "done"}
    /\ reads.stream + reads.lessons < MaxReads
    /\ reads' = [reads EXCEPT !.stream = @ + 1]
    /\ LET req == [NoStream EXCEPT !.userId = AuthenticatedUserId(identity),
                                   !.courseId = courseId, !.videoId = videoId]
           answers(status) ==
               stream' = [req EXCEPT !.pc = "done", !.status = status]
       IN  IF courseId <= 0 THEN answers(400)
           ELSE IF videoId = NoVideo THEN answers(400)
           ELSE IF videoId \notin ExtractableVideoIds THEN answers(400)
           ELSE IF ~cloudflare THEN answers(503)
           ELSE IF req.userId = NoUser THEN answers(401)
           ELSE stream' = [req EXCEPT !.pc = "su_query"]
    /\ UNCHANGED <<cache, signed, lesson>>
    /\ AccessFrame

\* const purchased = await query('SELECT id FROM user_courses ...'); 403
\* when there is no row.
SU_Query ==
    /\ stream.pc = "su_query"
    /\ \E fail \in FaultChoices :
        IF fail THEN StreamAnswers(500)
        ELSE IF ~Purchased(user_courses, stream.userId, stream.courseId)
        THEN StreamAnswers(403)
        ELSE stream' = [stream EXCEPT !.pc = "su_sign"]
    /\ UNCHANGED <<cache, signed, lesson, reads>>
    /\ AccessFrame

\* await cloudflareStreamService.generateSignedUrl(extractedId, {...}): the
\* URL is signed and answered, or the service throws and the catch answers
\* 500.
SU_Sign ==
    /\ stream.pc = "su_sign"
    /\ \E issued \in BOOLEAN :
        IF issued
        THEN /\ signed' = signed \cup {[userId |-> stream.userId,
                                        courseId |-> stream.courseId,
                                        videoId |-> stream.videoId]}
             /\ StreamAnswers(200)
        ELSE /\ UNCHANGED signed
             /\ StreamAnswers(500)
    /\ UNCHANGED <<cache, lesson, reads>>
    /\ AccessFrame

GenerateSignedUrl ==
    \/ \E identity \in Identities, c \in StreamCourses, v \in VideoIds :
            SU_Begin(identity, c, v)
    \/ SU_Query
    \/ SU_Sign


\* The course ids of the path of a lessons request: not a number, a course
\* of the filesystem and one that is not there.
NotInFilesystem == 9
LessonCourses == {NoCourse, 7, NotInFilesystem}

LessonHandlers == {"getCourseLessons", "getDynamicCourseLessons"}

COURSE_LESSONS(courseId) == <<"lessons", courseId>>

\* isDemoRequest(req): config.demoMode, or the x-demo-user header outside
\* production.
isDemoRequest(demoHeader) ==
    authConfig.demoMode \/ (config.nodeEnv # "production" /\ demoHeader)

\* The guard of the purchase check: getCourseLessons checks for a user that
\* is not a demo request, getDynamicCourseLessons for every user.
ChecksPurchase(handler, user, demo) ==
    IF handler = "getCourseLessons" THEN user # NoUser /\ ~demo
    ELSE user # NoUser

\* The lessons request is answered with status, with or without lessons.
LessonAnswers(status, content) ==
    lesson' = [lesson EXCEPT !.pc = "done", !.status = status, !.content = content]

\* The handlers up to the database call: 400 for a course id that is not a
\* number, then the purchase check when its guard holds.
LS_Begin(handler, identity, demoHeader, courseId) ==
    /\ lesson.pc \in {"idle", "done"}
    /\ reads.stream + reads.lessons < MaxReads
    /\ reads' = [reads EXCEPT !.lessons = @ + 1]
    /\ LET req == [NoLesson EXCEPT !.handler = handler, !.userId = identity.user,
                                   !.demo = isDemoRequest(demoHeader),
                                   !.courseId = courseId]
       IN  IF courseId = NoCourse
           THEN lesson' = [req EXCEPT !.pc = "done", !.status = 400]
           ELSE IF ChecksPurchase(handler, req.userId, req.demo)
           THEN lesson' = [req EXCEPT !.pc = "ls_query"]
           ELSE lesson' = [req EXCEPT !.pc = "ls_load"]
    /\ UNCHANGED <<cache, stream, signed>>
    /\ AccessFrame

\* const purchased = await query(...); 403 when there is no row.
LS_Query ==
    /\ lesson.pc = "ls_query"
    /\ \E fail \in FaultChoices :
        IF fail THEN LessonAnswers(500, FALSE)
        ELSE IF ~Purchased(user_courses, lesson.userId, lesson.courseId)
        THEN LessonAnswers(403, FALSE)
        ELSE lesson' = [lesson EXCEPT !.pc = "ls_load"]
    /\ UNCHANGED <<cache, stream, signed, reads>>
    /\ AccessFrame

\* The lessons are read and answered.  getCourseLessons answers from the
\* cache or loads and caches them; loading a course that is not in the
\* filesystem throws or gives no lessons.  getDynamicCourseLessons answers
\* 404 for a course that is not in the filesystem.
LS_Load ==
    /\ lesson.pc = "ls_load"
    /\ LET key == COURSE_LESSONS(lesson.courseId)
           exists == lesson.courseId \in CourseDirs
       IN  IF lesson.handler = "getCourseLessons"
           THEN IF key \in DOMAIN cache
                THEN LessonAnswers(200, cache[key]) /\ UNCHANGED cache
                ELSE IF exists
                THEN /\ cache' = CacheSet(cache, key, TRUE)
                     /\ LessonAnswers(200, TRUE)
                ELSE \/ LessonAnswers(500, FALSE) /\ UNCHANGED cache
                     \/ /\ cache' = CacheSet(cache, key, FALSE)
                        /\ LessonAnswers(200, FALSE)
           ELSE /\ UNCHANGED cache
                /\ IF exists THEN LessonAnswers(200, TRUE)
                   ELSE LessonAnswers(404, FALSE)
    /\ UNCHANGED <<stream, signed, reads>>
    /\ AccessFrame

Lessons ==
    \/ \E h \in LessonHandlers, identity \in Identities, demoHeader \in BOOLEAN,
          c \in LessonCourses : LS_Begin(h, identity, demoHeader, c)
    \/ LS_Query
    \/ LS_Load

\* The server with its entitlement readers: any configuration, the stream
\* service configured or not.
InitAccess ==
    /\ config \in [webhookId : {TRUE}, nodeEnv : {"production", "development"}]
    /\ authConfig \in [demoMode : BOOLEAN, botToken : {TRUE}]
    /\ cloudflare \in BOOLEAN
    /\ EmptyStores
    /\ AuthIdle
    /\ AccessIdle
    /\ PureIdle
    /\ pc = [p \in Procs |-> "idle"]
    /\ request = [p \in Procs |-> NoRequest]
    /\ local = [p \in Procs |-> NoLocal]
    /\ response = [p \in Procs |-> NoResponse]
    /\ po = NoPurchase
    /\ deliveries = 0
    /\ orders = 0
    /\ faults = FALSE
    /\ pre = EmptySnapshot
    /\ lastEvent = NoEvent
    /\ streak = 0

\* Sign-url and lessons requests while an administrator grants and revokes
\* course 7 of user 1.
NextAccess ==
    \/ GenerateSignedUrl
    \/ Lessons
    \/ GrantCourseToUser(1, 7)
    \/ RevokeCourseFromUser(1, 7)

SpecAccess == InitAccess /\ [][NextAccess]_vars


(***************************************************************************)
(* Signed stream URLs.                                                     *)
(***************************************************************************)
\* A sign-url request is received in this step.
StreamStarts == reads'.stream = reads.stream + 1

\* The request passes the validations that precede the user: a course id, a
\* video id the service knows, a configured service.
StreamWellFormed(s) ==
    s.courseId > 0 /\ s.videoId \in ExtractableVideoIds /\ cloudflare

\* The step ends the sign-url request with status and signs nothing.
StreamRefused(status) ==
    stream'.pc = "done" /\ stream'.status = status /\ signed' = signed

\* user_courses holds a row of user u and course c.
HoldsRow(u, c) == \E r \in user_courses : r.user_id = u /\ r.course_id = c

\* A URL is signed only by the signing step of a request, for the user,
\* course and video of the request, and a request reaches the signing step
\* only from a check that found the row of its user and course.
SignsOnlyAfterCheck ==
    /\ signed' # signed =>
        /\ stream.pc = "su_sign"
        /\ signed' = signed \cup {[userId |-> stream.userId,
                                   courseId |-> stream.courseId,
                                   videoId |-> stream.videoId]}
    /\ (stream'.pc = "su_sign" /\ stream.pc # "su_sign") =>
        /\ stream.pc = "su_query"
        /\ stream.userId # NoUser
        /\ HoldsRow(stream.userId, stream.courseId)

\* The check of a request whose user holds no row of the course answers 403.
NoRowIs403 ==
    (stream.pc = "su_query" /\ stream' # stream
        /\ ~HoldsRow(stream.userId, stream.courseId))
    => StreamRefused(403)

\* C21 as stated: generateSignedUrl signs a URL only when, at the time of the
\* check, user_courses holds the row of the authenticated user and the
\* requested course; without the row it answers 403 and signs nothing, and a
\* request without an authenticated user is answered 401.
C21_SignedUrlOnlyForOwners ==
    [][/\ SignsOnlyAfterCheck
       /\ NoRowIs403
       /\ (StreamStarts /\ stream'.userId = NoUser) => StreamRefused(401)]_vars

\* C21 amended: as above, for a request with a course id and a video id the
\* service accepts, sent to a configured service; a request that fails one
\* of these validations is answered 400 or 503 before the user is looked
\* at, and signs nothing.
C21_SignedUrlOnlyForOwnersOfValidRequests ==
    [][/\ SignsOnlyAfterCheck
       /\ NoRowIs403
       /\ (StreamStarts /\ stream'.userId = NoUser) =>
            /\ StreamWellFormed(stream') => StreamRefused(401)
            /\ ~StreamWellFormed(stream') =>
                (StreamRefused(400) \/ StreamRefused(503))]_vars

\* A URL was signed for the owner of the course, a request of a user without
\* the row was answered 403 ...
C21_Witness ==
    /\ signed # {}
    /\ stream.pc = "done" /\ stream.status = 403
    /\ stream.userId # NoUser


(***************************************************************************)
(* The lessons of a course.                                                *)
(***************************************************************************)
\* C22: getCourseLessons and getDynamicCourseLessons return the lessons of a
\* course only to a request whose authenticated user holds the entitlement:
\* a request gets to the step that reads the lessons only from a purchase
\* check that found the row of its user and the course, and lesson content
\* is answered only by that step.
C22_LessonsOnlyForOwners ==
    [][/\ (lesson'.pc = "ls_load" /\ lesson.pc # "ls_load") =>
            /\ lesson.pc = "ls_query"
            /\ lesson.userId # NoUser
            /\ HoldsRow(lesson.userId, lesson.courseId)
       /\ (lesson'.content /\ lesson' # lesson) => lesson.pc = "ls_load"]_vars


(***************************************************************************)
(* normalizeCurrency.  A currency string is a sequence of characters, so   *)
(* that trim and toUpperCase are computed on it.                           *)
(***************************************************************************)
\* The longest currency string that is tried.
MaxCurrencyLen == 3

\* Whitespace, a lower-case letter and its upper-case letter.
CurrencyChars == {" ", "u", "U"}

IsWhitespace(ch) == ch = " "

RECURSIVE SeqsUpTo(_, _)
\* The sequences over chars of length at most n.
SeqsUpTo(chars, n) ==
    IF n = 0 THEN {<<>>}
    ELSE LET shorter == SeqsUpTo(chars, n - 1)
         IN  shorter \cup {Append(s, ch) : s \in shorter, ch \in chars}

CurrencyStrings == SeqsUpTo(CurrencyChars, MaxCurrencyLen)

CurrencyValues == {Null, Undefined} \cup {Str(s) : s \in CurrencyStrings}

RECURSIVE TrimStart(_)
TrimStart(s) ==
    IF Len(s) > 0 /\ IsWhitespace(s[1]) THEN TrimStart(Tail(s)) ELSE s

RECURSIVE TrimEnd(_)
TrimEnd(s) ==
    IF Len(s) > 0 /\ IsWhitespace(s[Len(s)])
    THEN TrimEnd(SubSeq(s, 1, Len(s) - 1))
    ELSE s

\* String.prototype.trim
Trim(s) == TrimEnd(TrimStart(s))

UpperChar(ch) == IF ch = "u" THEN "U" ELSE ch

\* String.prototype.toUpperCase
toUpperCase(s) == [k \in 1..Len(s) |-> UpperChar(s[k])]

\* normalizeCurrency(value, fallback):
\*   const trimmed = typeof value === 'string' ? value.trim() : ''
\*   return (trimmed || fallback).toUpperCase()
normalizeCurrency(value, fallback) ==
    LET trimmed == IF value.type = "string" THEN Trim(value.chars) ELSE <<>>
    IN  toUpperCase(IF trimmed # <<>> THEN trimmed ELSE fallback)

PureFrame ==
    UNCHANGED <<config, stores, pc, request, local, response, po, counters,
                faults, ghosts, auth, access>>

\* normalizeCurrency is applied to the value and the fallback.
NC_Apply ==
    /\ currency.pc = "input"
    /\ currency' = [currency EXCEPT
                        !.pc = "applied",
                        !.result = normalizeCurrency(currency.value, currency.fallback)]
    /\ UNCHANGED roundTrip
    /\ PureFrame

\* normalizeCurrency is applied to its result, with the same fallback.
NC_Again ==
    /\ currency.pc = "applied"
    /\ currency' = [currency EXCEPT
                        !.pc = "reapplied",
                        !.again = normalizeCurrency(Str(currency.result),
                                                    currency.fallback)]
    /\ UNCHANGED roundTrip
    /\ PureFrame

\* Any value and any fallback.
InitCurrency ==
    /\ config = [webhookId |-> TRUE, nodeEnv |-> "production"]
    /\ EmptyStores
    /\ authConfig = [demoMode |-> FALSE, botToken |-> TRUE]
    /\ AuthIdle
    /\ cloudflare = TRUE
    /\ AccessIdle
    /\ roundTrip = NoRoundTrip
    /\ currency \in {[NoCurrency EXCEPT !.pc = "input", !.value = v, !.fallback = f] :
                        v \in CurrencyValues, f \in CurrencyStrings}
    /\ pc = [p \in Procs |-> "idle"]
    /\ request = [p \in Procs |-> NoRequest]
    /\ local = [p \in Procs |-> NoLocal]
    /\ response = [p \in Procs |-> NoResponse]
    /\ po = NoPurchase
    /\ deliveries = 0
    /\ orders = 0
    /\ faults = FALSE
    /\ pre = EmptySnapshot
    /\ lastEvent = NoEvent
    /\ streak = 0

NextCurrency == NC_Apply \/ NC_Again

SpecCurrency == InitCurrency /\ [][NextCurrency]_vars

\* m is s without its leading and trailing whitespace.
IsTrimOf(m, s) ==
    \E a, b \in 0..Len(s) :
        /\ a + b <= Len(s)
        /\ m = SubSeq(s, a + 1, Len(s) - b)
        /\ \A k \in 1..a : IsWhitespace(s[k])
        /\ \A k \in (Len(s) - b + 1)..Len(s) : IsWhitespace(s[k])
        /\ m # <<>> => (~IsWhitespace(m[1]) /\ ~IsWhitespace(m[Len(m)]))

\* r is m with every lower-case letter replaced by its upper-case letter.
IsUpperOf(r, m) ==
    /\ Len(r) = Len(m)
    /\ \A k \in 1..Len(m) :
        IF m[k] = "u" THEN r[k] = "U" ELSE r[k] = m[k]

\* The value is a string with a character that is no whitespace.
NonBlank(value) ==
    value.type = "string" /\ \E k \in 1..Len(value.chars) : ~IsWhitespace(value.chars[k])

\* The result of one application: the trimmed, upper-cased value when value
\* is a non-blank string, the upper-cased fallback otherwise.
NormalizeCurrencyResult ==
    currency.pc \in {"applied", "reapplied"} =>
        IF NonBlank(currency.value)
        THEN \E m \in CurrencyStrings :
                IsTrimOf(m, currency.value.chars) /\ IsUpperOf(currency.result, m)
        ELSE IsUpperOf(currency.result, currency.fallback)

\* C23: normalizeCurrency(value, fallback) is the trimmed, upper-cased value
\* when value is a non-blank string and the upper-cased fallback when value
\* is empty, blank, null or undefined; applied again to its result with the
\* same fallback it returns the same result.
C23_NormalizeCurrency ==
    /\ NormalizeCurrencyResult
    /\ currency.pc = "reapplied" => currency.again = currency.result


(***************************************************************************)
(* The custom id, from createPurchaseOrder to the webhook handlers.        *)
(***************************************************************************)
\* The largest user id and course id that is tried; ids of one and of two
\* digits.
MaxId == 12

PurchaseIds == 1..MaxId

\* createPurchaseOrder builds the custom id of the order of user.id and
\* courseId.
RT_Build ==
    /\ roundTrip.pc = "input"
    /\ roundTrip' = [roundTrip EXCEPT
                        !.pc = "built",
                        !.customId = MakeCustomId(roundTrip.userId, roundTrip.courseId)]
    /\ UNCHANGED currency
    /\ PureFrame

\* A capture handler parses the custom id of the event of that order.
RT_Parse ==
    /\ roundTrip.pc = "built"
    /\ LET parsed == ParseCustomId(roundTrip.customId)
       IN  roundTrip' = [roundTrip EXCEPT
                            !.pc = "parsed",
                            !.parsed = [matched |-> parsed.ok,
                                        userId |-> parsed.userId,
                                        courseId |-> parsed.courseId]]
    /\ UNCHANGED currency
    /\ PureFrame

\* Any user and any course an order can be created for.
InitCustomId ==
    /\ config = [webhookId |-> TRUE, nodeEnv |-> "production"]
    /\ EmptyStores
    /\ authConfig = [demoMode |-> FALSE, botToken |-> TRUE]
    /\ AuthIdle
    /\ cloudflare = TRUE
    /\ AccessIdle
    /\ currency = NoCurrency
    /\ roundTrip \in {[NoRoundTrip EXCEPT !.pc = "input", !.userId = u, !.courseId = c] :
                        u \in PurchaseIds, c \in PurchaseIds}
    /\ pc = [p \in Procs |-> "idle"]
    /\ request = [p \in Procs |-> NoRequest]
    /\ local = [p \in Procs |-> NoLocal]
    /\ response = [p \in Procs |-> NoResponse]
    /\ po = NoPurchase
    /\ deliveries = 0
    /\ orders = 0
    /\ faults = FALSE
    /\ pre = EmptySnapshot
    /\ lastEvent = NoEvent
    /\ streak = 0

NextCustomId == RT_Build \/ RT_Parse

SpecCustomId == InitCustomId /\ [][NextCustomId]_vars

\* C24: the custom id user_<u>_course_<c> that createPurchaseOrder builds
\* is parsed by the webhook handlers back to exactly (u, c): the pattern
\* matches, and the user and the course of the capture are those of the
\* order and no other.
C24_CustomIdRoundTrip ==
    roundTrip.pc = "parsed" =>
        /\ roundTrip.parsed.matched
        /\ roundTrip.parsed.userId = roundTrip.userId
        /\ roundTrip.parsed.courseId = roundTrip.courseId

\* The custom id of a user and a course with ids of two digits that differ
\* was built and parsed.
C24_Witness ==
    /\ roundTrip.pc = "parsed"
    /\ roundTrip.userId >= 10
    /\ roundTrip.courseId >= 10
    /\ roundTrip.userId # roundTrip.courseId
    /\ roundTrip.parsed.matched


(***************************************************************************)
(* Refund and capture of one payment, in any order.                        *)
(***************************************************************************)
\* The refund rows of the capture.
RefundedRows(rows, paymentId) ==
    {r \in rows : r.status = "refunded" /\ r.payment_id = paymentId}

\* C25: once both the capture completed and the capture refunded event of
\* one payment were processed, in either order and with any duplicates, and
\* no handler is running, the user holds no entitlement to the course: a
\* late or redelivered capture completed event does not restore the access.
C25_RefundWinsInAnyOrder ==
    (/\ Quiet
     /\ SuccessRows(transactions, "CAP1") # {}
     /\ RefundedRows(transactions, "CAP1") # {})
    => ~HoldsRow(1, 7)


(***************************************************************************)
(* The auto-capture and the webhook of its capture.  The provider sends    *)
(* CHECKOUT.ORDER.APPROVED of the order of user 1 for course 7; once the   *)
(* handler has asked for the capture, the provider may deliver             *)
(* PAYMENT.CAPTURE.COMPLETED of that capture, while the handler awaits the *)
(* capture call or any database call, or after it.  No database call       *)
(* throws.                                                                 *)
(***************************************************************************)
RaceApproved ==
    Event("CHECKOUT.ORDER.APPROVED", "ORDER1", MakeCustomId(1, 7), NoId)

RaceCompleted ==
    {Event("PAYMENT.CAPTURE.COMPLETED", "CAP1", MakeCustomId(1, 7), o) :
        o \in {NoId, "ORDER1"}}

\* The approved event was delivered and its handler has got to its capture
\* call, or beyond.
CaptureRequested ==
    /\ lastEvent = RaceApproved
    /\ \A q \in Procs : pc[q] # "received"

\* Both events were delivered.
BothDelivered ==
    /\ lastEvent \in RaceCompleted
    /\ streak = 1

ReceiveRace(p) ==
    \/ /\ lastEvent = NoEvent
       /\ ReceiveEvent(p, RaceApproved, TRUE, MaxDeliveries)
       /\ lastEvent' = RaceApproved
       /\ UNCHANGED <<pre, streak>>
    \/ /\ lastEvent = RaceApproved
       /\ CaptureRequested
       /\ \E ev \in RaceCompleted :
            /\ ReceiveEvent(p, ev, TRUE, MaxDeliveries)
            /\ lastEvent' = ev
       /\ streak' = 1
       /\ UNCHANGED pre

NextRace ==
    \/ \E p \in Procs :
        \/ ReceiveRace(p)
        \/ HandlePayPalWebhook(p)
        \/ OA_Capture(p)
        \/ Completed(p)
    \/ \E u \in {1}, c \in {7} : PO_Begin(u, c)
    \/ PO_CreateOrder
    \/ PO_Notify
    \/ PO_InsertPending

SpecRace == InitConc /\ [][NextRace]_vars

\* The success rows of the purchases of course c by user u.
SuccessRowsOf(rows, u, c) ==
    {r \in rows : r.status = "success" /\ r.user_id = u /\ r.course_id = c}

AuthenticateSeq(u) ==
    /\ Quiet
    /\ USER(TelegramIdOfUser(u)) \notin DOMAIN cache
    /\ cache' = CacheSet(cache, USER(TelegramIdOfUser(u)), "user")
    /\ UNCHANGED <<config, auth, access, pure, user_courses, transactions,
                   notifications, paypalOrders, pc, request, local, response,
                   po, counters, faults, ghosts>>

CacheEvents ==
    {Event("PAYMENT.CAPTURE.COMPLETED", "CAP1", MakeCustomId(1, 7), o) :
        o \in {NoId, "ORDER1"}}
    \cup {Event("PAYMENT.CAPTURE.REFUNDED", "CAP1", MakeCustomId(1, 7), NoId)}

ReceiveCache(p) ==
    /\ Quiet
    /\ \E ev \in CacheEvents :
        /\ ReceiveEvent(p, ev, TRUE, MaxPaymentDeliveries)
        /\ UNCHANGED ghosts

NextCache ==
    \/ \E p \in Procs :
        \/ ReceiveCache(p)
        \/ HandlePayPalWebhook(p)
        \/ Completed(p)
        \/ Refunded(p)
    \/ \E u \in {1}, c \in {7} : PO_BeginSeq(u, c)
    \/ PO_CreateOrder
    \/ PO_Notify
    \/ PO_InsertPending
    \/ GetUserCoursesSeq(1)
    \/ AuthenticateSeq(1)

SpecCache == InitSeq /\ [][NextCache]_vars

\* The handler of request p returns in this step from the end of a grant.
GrantReturns(p) ==
    /\ request[p].event.event_type = "PAYMENT.CAPTURE.COMPLETED"
    /\ pc[p] = "cc_notify"
    /\ pc'[p] = "done"

\* The handler of request p returns in this step from the end of a refund.
RefundReturns(p) ==
    /\ request[p].event.event_type = "PAYMENT.CAPTURE.REFUNDED"
    /\ pc[p] = "cr_cache"
    /\ pc'[p] = "done"

\* C27: when handlePaymentCaptureCompleted completes a grant, on return the
\* cache holds neither the cached course list of the user nor the cached
\* profile of the user, the entry authMiddleware stores; when
\* handlePaymentCaptureRefunded completes, the cache holds no cached course
\* list of the user.
C27_CacheInvalidatedOnGrant ==
    [][\A p \in Procs :
        /\ GrantReturns(p) =>
            /\ USER_COURSES(local[p].userId) \notin DOMAIN cache'
            /\ USER(TelegramIdOfUser(local[p].userId)) \notin DOMAIN cache'
        /\ RefundReturns(p) =>
            USER_COURSES(local[p].userId) \notin DOMAIN cache']_vars


(***************************************************************************)
(* getUserCourses (GET /api/user/courses), one action for each cache and   *)
(* database call, running while the webhook of a capture is handled.  The  *)
(* provider delivers the capture completed event once; no database call    *)
(* throws and nobody revokes.                                              *)
(***************************************************************************)
\* getUserCourses requests in one behaviour.
MaxListRequests == 2

ListFrame ==
    UNCHANGED <<config, user_courses, transactions, notifications, paypalOrders,
                pc, request, local, response, po, counters, faults, ghosts,
                auth, pure, cloudflare, stream, signed, lesson, reads>>

ListEvents ==
    {Event("PAYMENT.CAPTURE.COMPLETED", "CAP1", MakeCustomId(1, 7), o) :
        o \in {NoId, "ORDER1"}}

\* The handler of the capture completed event has granted and returned.
GrantReturned ==
    /\ lastEvent \in ListEvents
    /\ AllAnswered
    /\ HoldsRow(1, 7)

\* The course ids of the rows of the user, what the response lists.
CoursesOf(rows, userId) == {r.course_id : r \in {x \in rows : x.user_id = userId}}

\* const cached = await cache.get(cacheKey); if (cached) return
\* res.json({ success: true, data: cached }): a cached list is the answer,
\* else the request goes on to the database.
UC_Begin(userId) ==
    /\ courses.pc \in {"idle", "done"}
    /\ courses.calls < MaxListRequests
    /\ LET req == [NoCourses EXCEPT !.userId = userId,
                                    !.afterGrant = GrantReturned,
                                    !.calls = courses.calls + 1]
           key == USER_COURSES(userId)
       IN  IF key \in DOMAIN cache
           THEN courses' = [req EXCEPT !.pc = "done",
                                       !.list = cache[key]]
           ELSE courses' = [req EXCEPT !.pc = "uc_query"]
    /\ UNCHANGED cache
    /\ ListFrame

\* const userCourses = await query('SELECT ... FROM user_courses WHERE
\* user_id = ?')
UC_Query ==
    /\ courses.pc = "uc_query"
    /\ courses' = [courses EXCEPT !.pc = "uc_set",
                                  !.list = CoursesOf(user_courses, courses.userId)]
    /\ UNCHANGED cache
    /\ ListFrame

\* await cache.set(cacheKey, formatted, 300); res.json(...)
UC_CacheSet ==
    /\ courses.pc = "uc_set"
    /\ cache' = CacheSet(cache, USER_COURSES(courses.userId), courses.list)
    /\ courses' = [courses EXCEPT !.pc = "done"]
    /\ ListFrame

GetUserCourses == UC_Begin(1) \/ UC_Query \/ UC_CacheSet

ReceiveList(p) ==
    /\ lastEvent = NoEvent
    /\ \E ev \in ListEvents :
        /\ ReceiveEvent(p, ev, TRUE, MaxDeliveries)
        /\ lastEvent' = ev
    /\ UNCHANGED <<pre, streak>>

NextList ==
    \/ \E p \in Procs :
        \/ ReceiveList(p)
        \/ HandlePayPalWebhook(p)
        \/ Completed(p)
    \/ \E u \in {1}, c \in {7} : PO_Begin(u, c)
    \/ PO_CreateOrder
    \/ PO_Notify
    \/ PO_InsertPending
    \/ GetUserCourses

SpecList == InitConc /\ [][NextList]_vars

\* C28: the cache never hides a completed grant.  In every interleaving of
\* getUserCourses with handlePaymentCaptureCompleted, a getUserCourses call
\* that starts after the grant handler returned is answered a list that
\* contains the granted course.
C28_CacheNeverHidesGrant ==
    (courses.pc = "done" /\ courses.afterGrant) => 7 \in courses.list


(***************************************************************************)
(* Refunds and purchases of one user and one course: the sequential        *)
(* environment with two captures, the first of the order of                *)
(* createPurchaseOrder, and the refund of the first capture, delivered in  *)
(* any order and any number of times.                                      *)
(***************************************************************************)
\* Webhook deliveries in one behaviour of this environment.
MaxRefundDeliveries == 4

RefundEvents ==
    {Event("PAYMENT.CAPTURE.COMPLETED", "CAP1", MakeCustomId(1, 7), "ORDER1"),
     Event("PAYMENT.CAPTURE.COMPLETED", "CAP2", MakeCustomId(1, 7), NoId),
     Event("PAYMENT.CAPTURE.REFUNDED", "CAP1", MakeCustomId(1, 7), NoId)}

ReceiveRefund(p) ==
    /\ Quiet
    /\ \E ev \in RefundEvents :
        /\ ReceiveEvent(p, ev, TRUE, MaxRefundDeliveries)
        /\ UNCHANGED ghosts

NextRefund ==
    \/ \E p \in Procs :
        \/ ReceiveRefund(p)
        \/ HandlePayPalWebhook(p)
        \/ Completed(p)
        \/ Refunded(p)
    \/ \E u \in {1}, c \in {7} : PO_BeginSeq(u, c)
    \/ PO_CreateOrder
    \/ PO_Notify
    \/ PO_InsertPending

SpecRefund == InitSeq /\ [][NextRefund]_vars

\* C29: handlePaymentCaptureRefunded removes the entitlement of the user and
\* the course of the event whenever there is one, whatever capture paid for
\* it: after its DELETE no row of that user and course is left and every
\* other row is, so a duplicate refund of the first capture removes the
\* entitlement of a second purchase.
C29_RefundRevokesUnconditionally ==
    [][\A p \in Procs :
        (pc[p] = "cr_delete" /\ pc'[p] = "cr_insert") =>
            user_courses' =
                {r \in user_courses : ~(/\ r.user_id = local[p].userId
                                        /\ r.course_id = local[p].courseId)}]_vars

\* Capture CAP1 was granted and refunded, capture CAP2 bought the course
\* again, and a second refund of CAP1 has just deleted the entitlement.
C29_Witness ==
    /\ ~HoldsRow(1, 7)
    /\ \E p \in Procs : pc[p] = "cr_insert" /\ local[p].captureId = "CAP1"
    /\ \E s1 \in SuccessRows(transactions, "CAP1"),
          rr \in RefundedRows(transactions, "CAP1"),
          s2 \in SuccessRows(transactions, "CAP2") :
            s1.id < rr.id /\ rr.id < s2.id


(***************************************************************************)
(* The life cycle of a transaction.                                        *)
(***************************************************************************)
TransactionStatuses == {"pending", "success", "failed", "refunded"}

\* Every row has one of the four statuses, and the type refund exactly when
\* its status is refunded, purchase otherwise.
RowsWellFormed(rows) ==
    \A r \in rows :
        /\ r.status \in TransactionStatuses
        /\ r.type = (IF r.status = "refunded" THEN "refund" ELSE "purchase")

\* From before to after no row is deleted, and a row is as it was or went
\* from pending to success, taking the capture id as payment id.
OnlyPendingToSuccess(before, after) ==
    \A r \in before :
        \E r2 \in after :
            /\ r2.id = r.id
            /\ \/ r2 = r
               \/ /\ r.status = "pending"
                  /\ r2 = [r EXCEPT !.status = "success",
                                    !.payment_id = r2.payment_id]

\* C30: every transaction has status pending, success, failed or refunded,
\* and type refund exactly when its status is refunded; the only change a
\* payment operation makes to an existing row is pending to success; rows
\* with status success, failed or refunded are never modified and no row is
\* deleted.
C30_TransactionLifeCycle ==
    [][/\ RowsWellFormed(transactions')
       /\ OnlyPendingToSuccess(transactions, transactions')]_vars

\* A pending row of createPurchaseOrder became the success row of the
\* capture, and the table holds a failed or a refunded row as well.
C30_Witness ==
    /\ \E r \in transactions : r.status = "success" /\ r.payment_id = "CAP1"
                                /\ r.notification_message_id # NoMessage
    /\ \E r \in transactions : r.status \in {"failed", "refunded"}

====
